---------------------------- MODULE Spec2Model ----------------------------
(***************************************************************************)
(* A state-machine model of the GC rooting checker of                     *)
(* src/clangsa/GCChecker.cpp.  The checker's per-path state (the three     *)
(* scalar traits GCDepth, GCDisabledAt, SafepointDisabledAt and the two    *)
(* maps GCValueMap, GCRootMap) are the variables; every checker callback   *)
(* (checkBeginFunction, checkEndFunction, evalCall, checkPreCall,          *)
(* checkPostCall, checkPostStmt, checkBind, checkLocation) is an action.   *)
(* What the host symbolic-execution engine answers to the checker's        *)
(* queries (which symbol a location holds, which region an expression      *)
(* denotes, which annotations a declaration carries) is an input of the    *)
(* action, drawn from small finite sets.                                   *)
(***************************************************************************)
EXTENDS Integers, Sequences, FiniteSets, TLC

VARIABLES
    GCDepth,              \* REGISTER_TRAIT GCDepth: nesting depth of root frames
    GCDisabledAt,         \* REGISTER_TRAIT GCDisabledAt: height GC was disabled at
    SafepointDisabledAt,  \* REGISTER_TRAIT SafepointDisabledAt
    GCValueMap,           \* REGISTER_MAP GCValueMap: symbol -> ValueState
    GCRootMap,            \* REGISTER_MAP GCRootMap: region -> RootState
    Stack,                \* the host's stack of location contexts (function decls)
    last,                 \* the callback that produced this state, with its inputs
                          \* (and, for jl_gc_enable, the value bound to the call)
    reports,              \* the diagnostic that callback emitted (at most one:
                          \* the first it asked for)
    halted                \* the path ended in an error (sink) node, or the
                          \* analysis aborted

vars == <<GCDepth, GCDisabledAt, SafepointDisabledAt, GCValueMap, GCRootMap,
          Stack, last, reports, halted>>

chk == <<GCDepth, GCDisabledAt, SafepointDisabledAt, GCValueMap, GCRootMap>>

-----------------------------------------------------------------------------
(* Bounds of the model. *)

\* gcDepth is capped: no push is taken at this depth.
MaxDepth == 2

\* The stack of inlined calls is capped at this height (1 = the top frame).
MaxHeight == 2

(* Program constants. *)

\* (unsigned)-1, the value of GCDisabledAt / SafepointDisabledAt meaning
\* "enabled", and (unsigned)-2, what jl_gc_enable(0) stores into GCDisabledAt.
\* The code only ever compares these traits for equality (with a stack height
\* or with (unsigned)-1), so the two sentinels are kept as the integers -1 and
\* -2 they are written as: no stack height equals either.
UNSIGNED_M1 == -1

UNSIGNED_M2 == -2

\* The default value of an unsigned trait before any callback has set it.
TRAIT_DEFAULT == 0

\* const int64_t NBOX_C
NBOX_C == 1024

-----------------------------------------------------------------------------
(* Symbols and regions of the host engine. *)

NoSym == "NoSym"
\* The kind of each symbol.  "a" and "b" are the values of pointer variables
\* (SymbolRegionValue of a VarRegion).  "c" is the symbol a path conjures
\* (SymbolConjured: the result of a call, or of a derived expression whose
\* value was unknown); on the paths of a function that has a parameter c it
\* is the value of that variable, as "a" and "b" are, and is never conjured
\* there, since it has a state from the entry on.  "d" is the value of a
\* field of the object "a" points to (SymbolRegionValue of a FieldRegion of
\* SymRegion{a}).
Syms == {"a", "b", "c", "d"}
SymOrNone == Syms \cup {NoSym}

\* The symbols conjureSymbolVal can return.
ConjuredSyms == {"c"}

\* The step of walkToRoot from a symbol: the symbol of the symbolic base of
\* the region a SymbolRegionValue / SymbolDerived originates from.  The
\* region of "a" and "b" is a variable, which has no symbolic base, and a
\* conjured symbol has no such region: the walk ends there.
OriginBase(sym) == IF sym = "d" THEN "a" ELSE NoSym

NoRegion == "null"
\* x, y: local pointer variables; arr: a local array of pointers and arr[0]
\* its element region; items: the buffer an arraylist's items field points to
\* and items[0] its element region; g: a global of tracked type; gr: a global
\* annotated julia_globally_rooted; p: the slot a julia_require_rooted_slot
\* parameter denotes; fld: a member of the object symbol "a" points to; bfld:
\* a member of the object symbol "b" points to.
Regions == {"x", "y", "arr", "arr[0]", "items", "items[0]", "g", "gr", "p", "fld",
            "bfld"}
RegionOrNone == Regions \cup {NoRegion}

-----------------------------------------------------------------------------
(* struct ValueState *)

NoVS == [S |-> "None", Root |-> NoRegion, RootDepth |-> 0]

ValueState(InS, Root, Depth) == [S |-> InS, Root |-> Root, RootDepth |-> Depth]

getAllocated == ValueState("Allocated", NoRegion, -1)

getFreed == ValueState("PotentiallyFreed", NoRegion, -1)

getUntracked == ValueState("Untracked", NoRegion, -1)

getRooted(Root, Depth) == ValueState("Rooted", Root, Depth)

isRooted(VS) == VS.S = "Rooted"

isPotentiallyFreed(VS) == VS.S = "PotentiallyFreed"

isJustAllocated(VS) == VS.S = "Allocated"

isUntracked(VS) == VS.S = "Untracked"

hasState(VS) == VS.S # "None"

isRootedBy(VS, R) == isRooted(VS) /\ R = VS.Root

\* A faulty variant of getForArgument that ignores julia_maybe_unrooted.
getForArgument_ignoreUnrooted(maybeUnrooted, isFunctionSafepoint) ==
    IF ~isFunctionSafepoint
    THEN getAllocated
    ELSE getRooted(NoRegion, -1)

getForArgument(maybeUnrooted, isFunctionSafepoint) ==
    IF ~isFunctionSafepoint \/ maybeUnrooted
    THEN getAllocated
    ELSE getRooted(NoRegion, -1)

(* struct RootState *)

NoRS == [K |-> "None", RootedAtDepth |-> 0]

getRoot(Depth) == [K |-> "Root", RootedAtDepth |-> Depth]

getRootArray(Depth) == [K |-> "RootArray", RootedAtDepth |-> Depth]

hasRoot(RS) == RS.K # "None"

\* A faulty variant of shouldPopAtDepth that also pops deeper roots.
shouldPopAtDepth_deeper(RS, Depth) == hasRoot(RS) /\ Depth <= RS.RootedAtDepth

shouldPopAtDepth(RS, Depth) == hasRoot(RS) /\ Depth = RS.RootedAtDepth

isRootArray(RS) == RS.K = "RootArray"

-----------------------------------------------------------------------------
(* Helpers on the path state. *)

gcEnabledHere(disabledAt) == disabledAt = UNSIGNED_M1

safepointEnabledHere(disabledAt) == disabledAt = UNSIGNED_M1

getStackFrameHeight(stack) == Len(stack)

\* A faulty variant of inTopFrame that takes every frame for the top frame.
inTopFrame_always(stack) == TRUE

inTopFrame(stack) == Len(stack) = 1

\* walkToRoot with the callback "keep walking while the symbol has no state".
RECURSIVE walkToRootNoState(_, _)
walkToRootNoState(vm, sym) ==
    IF sym = NoSym THEN NoSym
    ELSE IF ~hasState(vm[sym]) THEN walkToRootNoState(vm, OriginBase(sym))
    ELSE sym

\* walkToRoot with the callback "keep walking while the symbol is not rooted".
RECURSIVE walkToRootNotRooted(_, _)
walkToRootNotRooted(vm, sym) ==
    IF sym = NoSym THEN NoSym
    ELSE IF ~hasState(vm[sym]) \/ ~isRooted(vm[sym])
         THEN walkToRootNotRooted(vm, OriginBase(sym))
    ELSE sym

\* getValStateForRegion, for a region whose symbolic base is sym.
getValStateForRegion(vm, sym) ==
    LET s == walkToRootNotRooted(vm, sym)
    IN  IF s = NoSym THEN NoVS ELSE vm[s]

Report(msg, sym) == [msg |-> msg, sym |-> sym]

\* report_error / report_value_error: the diagnostic r is emitted only when
\* generateErrorNode gives a node, which it does for the first request of a
\* callback; a later request of the same callback returns without a report.
\* rep holds what the callback has emitted so far.
emitReport(rep, r) == IF rep = {} THEN {r} ELSE rep

\* The record kept in last: the callback and a tag naming what it was about
\* (the callee, the region or the symbol).
Op(op, tag) == [op |-> op, tag |-> tag]

-----------------------------------------------------------------------------
(* Declarations of the analysed program: functions whose bodies the engine *)
(* walks (stack frames).                                                   *)

\* A ParmVarDecl: whether its type is GC tracked (isGCTrackedType), globally
\* rooted (isGloballyRootedType), its annotations, the symbol its storage
\* holds when the function is entered at the top frame, and (for
\* julia_require_rooted_slot) the region the parameter's value denotes.
Parm(tracked, globRoot, maybeUnrooted, requireRootedSlot, sym) ==
    [tracked |-> tracked, globRoot |-> globRoot, maybeUnrooted |-> maybeUnrooted,
     requireRootedSlot |-> requireRootedSlot, sym |-> sym, region |-> "p"]

\* A FunctionDecl: its annotations and the file name of its location.
Func(name, annNotSafepoint, file, gcDisabled, nsEnter, nsLeave, params) ==
    [name |-> name, annNotSafepoint |-> annNotSafepoint, file |-> file,
     gcDisabled |-> gcDisabled, nsEnter |-> nsEnter, nsLeave |-> nsLeave,
     params |-> params]

\* llvm::sys::path::filename(Name).starts_with("llvm-"), over the file names
\* of the modelled declarations.
starts_with_llvm(file) == file \in {"llvm-alloc-opt.cpp", "llvm-gc.cpp"}

isFDAnnotatedNotSafepoint(FD) ==
    IF FD.annNotSafepoint THEN TRUE
    ELSE IF starts_with_llvm(FD.file) THEN TRUE
    ELSE FALSE

F_plain == Func("f", FALSE, "gc.c", FALSE, FALSE, FALSE,
                <<Parm(TRUE, FALSE, FALSE, FALSE, "a"),
                  Parm(TRUE, FALSE, TRUE, FALSE, "b")>>)

F_mixed == Func("h", FALSE, "gc.c", FALSE, FALSE, FALSE,
                <<Parm(FALSE, FALSE, FALSE, FALSE, NoSym),
                  Parm(TRUE, FALSE, FALSE, FALSE, "b"),
                  Parm(TRUE, TRUE, FALSE, FALSE, "c")>>)

F_ns == Func("ns", TRUE, "gc.c", FALSE, FALSE, FALSE,
             <<Parm(TRUE, FALSE, FALSE, FALSE, "a")>>)

F_llvm == Func("pass", FALSE, "llvm-alloc-opt.cpp", FALSE, FALSE, FALSE,
               <<Parm(TRUE, FALSE, FALSE, FALSE, "a")>>)

F_gcdis == Func("nogc", FALSE, "gc.c", TRUE, FALSE, FALSE, <<>>)

F_enter == Func("enter", FALSE, "gc.c", FALSE, TRUE, FALSE, <<>>)

F_leave == Func("leave", FALSE, "gc.c", FALSE, FALSE, TRUE, <<>>)

F_slot == Func("slot", FALSE, "gc.c", FALSE, FALSE, FALSE,
               <<Parm(TRUE, FALSE, FALSE, TRUE, NoSym),
                 Parm(TRUE, FALSE, FALSE, FALSE, "a")>>)

AllFuncs == {F_plain, F_mixed, F_ns, F_llvm, F_gcdis, F_enter, F_leave, F_slot}

\* A location context on the stack: its function declaration, and the value
\* GCDepth had when the function was entered (kept only to state balance
\* properties; no handler reads it).
Frame(FD, depth) == [fd |-> FD, depth0 |-> depth]

CurFD == Stack[Len(Stack)].fd

Running == ~halted /\ Len(Stack) >= 1

-----------------------------------------------------------------------------
(* checkBeginFunction *)

\* propagateArgumentRootedness: the loop over FD->parameters().  i is the
\* position of the parameter, idx the running index the code passes to
\* CE->getArg(idx++) (advanced for tracked parameters only).  args[k] is the
\* symbol the call's k-th argument denotes in the caller (NoSym if none).
RECURSIVE propagateArgumentRootedness(_, _, _, _, _, _)
propagateArgumentRootedness(params, args, i, idx, vm, rep) ==
    IF i > Len(params) THEN [vm |-> vm, reports |-> rep]
    ELSE LET P == params[i] IN
      IF ~P.tracked
      THEN propagateArgumentRootedness(params, args, i + 1, idx, vm, rep)
      ELSE
        LET ArgSym == walkToRootNoState(vm, args[idx])
            ParamSym == args[i]
        IN  IF ArgSym = NoSym
            THEN propagateArgumentRootedness(params, args, i + 1, idx + 1, vm, rep)
            ELSE IF ~hasState(vm[ArgSym])
            THEN propagateArgumentRootedness(params, args, i + 1, idx + 1, vm,
                     emitReport(rep, Report("Missed allocation of parameter", NoSym)))
            ELSE IF ParamSym = NoSym
            THEN propagateArgumentRootedness(params, args, i + 1, idx + 1, vm, rep)
            ELSE IF P.globRoot
            THEN propagateArgumentRootedness(params, args, i + 1, idx + 1,
                     [vm EXCEPT ![ParamSym] = getRooted(NoRegion, -1)], rep)
            ELSE propagateArgumentRootedness(params, args, i + 1, idx + 1,
                     [vm EXCEPT ![ParamSym] = vm[ArgSym]], rep)

\* The top-frame loop over FD->parameters(): julia_require_rooted_slot
\* parameters register their region as a permanent root, other tracked
\* parameters get ValueState::getForArgument.
RECURSIVE topFrameParams(_, _, _, _, _)
topFrameParams(params, i, isFunctionSafepoint, rm, vm) ==
    IF i > Len(params) THEN [rm |-> rm, vm |-> vm]
    ELSE LET P == params[i] IN
      IF P.requireRootedSlot
      THEN topFrameParams(params, i + 1, isFunctionSafepoint,
                          [rm EXCEPT ![P.region] = getRoot(-1)], vm)
      ELSE IF P.tracked /\ P.sym # NoSym
      THEN topFrameParams(params, i + 1, isFunctionSafepoint, rm,
               [vm EXCEPT ![P.sym] = getForArgument(P.maybeUnrooted, isFunctionSafepoint)])
      ELSE topFrameParams(params, i + 1, isFunctionSafepoint, rm, vm)

\* The scalar part of checkBeginFunction: GCDisabledAt after entry.
beginGCDisabledAt(FD, top, height, old) ==
    LET d0 == IF top THEN UNSIGNED_M1 ELSE old
    IN  IF gcEnabledHere(d0) /\ FD.gcDisabled THEN height ELSE d0

\* A faulty variant of beginSafepointDisabledAt that records the height at
\* every entry of a function that is not a safepoint.
beginSafepointDisabledAt_everyEntry(FD, top, height, old) ==
    IF isFDAnnotatedNotSafepoint(FD) \/ FD.nsLeave THEN height
    ELSE IF top THEN UNSIGNED_M1 ELSE old

\* The scalar part of checkBeginFunction: SafepointDisabledAt after entry.
beginSafepointDisabledAt(FD, top, height, old) ==
    LET d0 == IF top THEN UNSIGNED_M1 ELSE old
        isFunctionSafepoint == ~isFDAnnotatedNotSafepoint(FD)
    IN  IF safepointEnabledHere(d0) /\ (~isFunctionSafepoint \/ FD.nsLeave)
        THEN height ELSE d0

\* Entry of the function FD; args are the caller-side symbols of the call's
\* arguments when FD is entered as an inlined callee.
BeginFunction(FD, args) ==
    /\ ~halted
    /\ Len(Stack) < MaxHeight
    /\ (Len(Stack) = 0 => last.op = "Init")
    /\ Len(args) = Len(FD.params)
    /\ LET top == Len(Stack) = 0
           height == Len(Stack) + 1
           isFunctionSafepoint == ~isFDAnnotatedNotSafepoint(FD)
       IN  /\ Stack' = Append(Stack, Frame(FD, GCDepth))
           /\ GCDisabledAt' = beginGCDisabledAt(FD, top, height, GCDisabledAt)
           /\ SafepointDisabledAt' =
                  beginSafepointDisabledAt(FD, top, height, SafepointDisabledAt)
           /\ IF ~top
              THEN LET r == propagateArgumentRootedness(FD.params, args, 1, 1,
                                                         GCValueMap, {})
                   IN  /\ GCValueMap' = r.vm
                       /\ reports' = r.reports
                       /\ GCRootMap' = GCRootMap
              ELSE LET r == topFrameParams(FD.params, 1, isFunctionSafepoint,
                                           GCRootMap, GCValueMap)
                   IN  /\ GCValueMap' = r.vm
                       /\ GCRootMap' = r.rm
                       /\ reports' = {}
           /\ GCDepth' = GCDepth
           /\ halted' = FALSE
           /\ last' = Op("BeginFunction", FD.name)

-----------------------------------------------------------------------------
(* checkEndFunction *)

\* A faulty variant of returnValueFreed that does not look at the GC switch.
returnValueFreed_gcIgnored(ret, disabledAt, vm) ==
    /\ ret.tracked
    /\ ret.sym # NoSym
    /\ isPotentiallyFreed(vm[ret.sym])

\* The condition under which checkEndFunction reports the returned value.
returnValueFreed(ret, disabledAt, vm) ==
    /\ ret.tracked
    /\ gcEnabledHere(disabledAt)
    /\ ret.sym # NoSym
    /\ isPotentiallyFreed(vm[ret.sym])

\* A faulty variant of safepointsLeftDisabled that does not exempt functions
\* annotated julia_notsafepoint_enter.
safepointsLeftDisabled_enterIgnored(FD, spChanged) ==
    /\ spChanged
    /\ ~isFDAnnotatedNotSafepoint(FD)

\* The condition under which checkEndFunction reports that safepoints are
\* still disabled; spChanged is SafepointDisabledAt == CurrentHeight.
safepointsLeftDisabled(FD, spChanged) ==
    /\ spChanged
    /\ ~isFDAnnotatedNotSafepoint(FD)
    /\ ~FD.nsEnter

\* ret is the return statement's value: whether there is one of tracked type
\* and the symbol it denotes.
EndFunction(ret) ==
    /\ Running
    /\ LET FD == CurFD
           CurrentHeight == getStackFrameHeight(Stack)
           retErr == IF returnValueFreed(ret, GCDisabledAt, GCValueMap)
                     THEN emitReport({}, Report("Return value may have been GCed", ret.sym))
                     ELSE {}
           gcChanged == GCDisabledAt = CurrentHeight
           spChanged == SafepointDisabledAt = CurrentHeight
           spErr == IF safepointsLeftDisabled(FD, spChanged)
                    THEN emitReport(retErr, Report("Safepoints disabled at end of function", NoSym))
                    ELSE retErr
           Changed == gcChanged \/ spChanged
           depthErr == IF inTopFrame(Stack) /\ GCDepth # 0
                       THEN emitReport(spErr, Report("Non-popped GC frame present at end of function",
                                                     NoSym))
                       ELSE spErr
       IN  /\ GCDisabledAt' = IF gcChanged THEN UNSIGNED_M1 ELSE GCDisabledAt
           /\ SafepointDisabledAt' =
                  IF spChanged THEN UNSIGNED_M1 ELSE SafepointDisabledAt
           /\ reports' = depthErr
           /\ halted' = (depthErr # {} /\ ~Changed)
           /\ Stack' = SubSeq(Stack, 1, Len(Stack) - 1)
           /\ last' = Op("EndFunction", FD.name)
    /\ UNCHANGED <<GCDepth, GCValueMap, GCRootMap>>

-----------------------------------------------------------------------------
(* evalCall: the root-frame intrinsics, recognised by callee name *)

\* name == "JL_GC_POP"
popRoots(rm, depth) == {R \in Regions : shouldPopAtDepth(rm[R], depth)}

popRootMap(rm, depth) ==
    [R \in Regions |-> IF R \in popRoots(rm, depth) THEN NoRS ELSE rm[R]]

\* A faulty variant of popValueMap that also demotes the values rooted by no
\* region when a frame is removed.
popValueMap_rootless(vm, PoppedRoots) ==
    [s \in Syms |-> IF \/ \E R \in PoppedRoots : isRootedBy(vm[s], R)
                       \/ (PoppedRoots # {} /\ isRooted(vm[s]) /\ vm[s].Root = NoRegion)
                    THEN getAllocated ELSE vm[s]]

popValueMap(vm, PoppedRoots) ==
    [s \in Syms |-> IF \E R \in PoppedRoots : isRootedBy(vm[s], R)
                    THEN getAllocated ELSE vm[s]]

\* A faulty variant of popWithoutPush that never sees the underflow.
popWithoutPush_never(CurrentDepth) == FALSE

\* if (CurrentDepth == 0): a pop with no root frame left to remove.
popWithoutPush(CurrentDepth) == CurrentDepth = 0

EvalCall_JL_GC_POP ==
    /\ Running
    /\ last' = Op("JL_GC_POP", "")
    /\ IF popWithoutPush(GCDepth)
       THEN /\ reports' = {Report("JL_GC_POP without corresponding push", NoSym)}
            /\ halted' = TRUE
            /\ UNCHANGED <<chk, Stack>>
       ELSE LET CurrentDepth == GCDepth - 1 IN
            /\ GCDepth' = CurrentDepth
            /\ GCRootMap' = popRootMap(GCRootMap, CurrentDepth)
            /\ GCValueMap' = popValueMap(GCValueMap, popRoots(GCRootMap, CurrentDepth))
            /\ reports' = {}
            /\ halted' = FALSE
            /\ UNCHANGED <<GCDisabledAt, SafepointDisabledAt, Stack>>

\* A faulty variant of pushRootedValue that re-roots a value that is already
\* rooted.
pushRootedValue_always(vs, Region, CurrentDepth) == getRooted(Region, CurrentDepth)

\* name == "JL_GC_PUSH1" .. "JL_GC_PUSH9": the state the loop gives the value
\* a slot holds.
pushRootedValue(vs, Region, CurrentDepth) ==
    IF ~isRooted(vs) THEN getRooted(Region, CurrentDepth) ELSE vs

\* The loop over the slot arguments.  A slot is [region, sym]: the region the
\* argument denotes (NoRegion when it is not a loc::MemRegionVal) and the
\* symbol that region holds.

RECURSIVE pushSlots(_, _, _, _, _, _)
pushSlots(slots, i, CurrentDepth, rm, vm, rep) ==
    IF i > Len(slots) THEN [ok |-> TRUE, rm |-> rm, vm |-> vm, reports |-> rep]
    ELSE LET Region == slots[i].region
             Sym == slots[i].sym
         IN
      IF Region = NoRegion
      THEN [ok |-> FALSE, rm |-> rm, vm |-> vm,
            reports |-> emitReport(rep, Report("JL_GC_PUSH with something other than a local variable",
                                               NoSym))]
      ELSE LET rm1 == [rm EXCEPT ![Region] = getRoot(CurrentDepth)] IN
        IF Sym = NoSym \/ ~hasState(vm[Sym])
        THEN pushSlots(slots, i + 1, CurrentDepth, rm1, vm, rep)
        ELSE pushSlots(slots, i + 1, CurrentDepth, rm1,
                 [vm EXCEPT ![Sym] = pushRootedValue(vm[Sym], Region, CurrentDepth)],
                 IF isPotentiallyFreed(vm[Sym])
                 THEN emitReport(rep, Report("Trying to root value which may have been GCed", Sym))
                 ELSE rep)

\* A faulty variant of pushCommitted that keeps what the slots before the
\* failing one registered.
pushCommitted_partial(r, CurrentDepth, rm, vm) ==
    [rm |-> r.rm, vm |-> r.vm,
     depth |-> IF r.ok THEN CurrentDepth + 1 ELSE CurrentDepth]

\* The state JL_GC_PUSH leaves: the State the loop built is added as a
\* transition only when the loop ran to its end; the error return leaves
\* C.getState().
pushCommitted(r, CurrentDepth, rm, vm) ==
    IF r.ok THEN [rm |-> r.rm, vm |-> r.vm, depth |-> CurrentDepth + 1]
    ELSE [rm |-> rm, vm |-> vm, depth |-> CurrentDepth]

EvalCall_JL_GC_PUSH(slots) ==
    /\ Running
    /\ GCDepth < MaxDepth
    /\ last' = Op("JL_GC_PUSH", slots[1].region)
    /\ LET r == pushSlots(slots, 1, GCDepth, GCRootMap, GCValueMap, {})
           after == pushCommitted(r, GCDepth, GCRootMap, GCValueMap)
       IN  /\ GCRootMap' = after.rm
           /\ GCValueMap' = after.vm
           /\ GCDepth' = after.depth
           /\ reports' = r.reports
           /\ halted' = ~r.ok
           /\ UNCHANGED <<GCDisabledAt, SafepointDisabledAt, Stack>>

\* name == "_JL_GC_PUSHARGS": Region is the argument's region with casts
\* stripped (NoRegion when the argument is not a loc::MemRegionVal).
EvalCall_JL_GC_PUSHARGS(Region) ==
    /\ Running
    /\ GCDepth < MaxDepth
    /\ last' = Op("_JL_GC_PUSHARGS", Region)
    /\ IF Region = NoRegion
       THEN /\ reports' = {Report("JL_GC_PUSH with something other than an args array",
                                  NoSym)}
            /\ halted' = TRUE
            /\ UNCHANGED <<chk, Stack>>
       ELSE /\ GCRootMap' = [GCRootMap EXCEPT ![Region] = getRootArray(GCDepth)]
            /\ GCDepth' = GCDepth + 1
            /\ reports' = {}
            /\ halted' = FALSE
            /\ UNCHANGED <<GCDisabledAt, SafepointDisabledAt, GCValueMap, Stack>>

\* name == "JL_GC_PROMISE_ROOTED"
EvalCall_JL_GC_PROMISE_ROOTED(Sym) ==
    /\ Running
    /\ last' = Op("JL_GC_PROMISE_ROOTED", Sym)
    /\ IF Sym = NoSym
       THEN /\ reports' = {Report("Can not understand this promise.", NoSym)}
            /\ halted' = TRUE
            /\ UNCHANGED <<chk, Stack>>
       ELSE /\ GCValueMap' = [GCValueMap EXCEPT ![Sym] = getRooted(NoRegion, -1)]
            /\ reports' = {}
            /\ halted' = FALSE
            /\ UNCHANGED <<GCDepth, GCDisabledAt, SafepointDisabledAt, GCRootMap, Stack>>

\* name == "jl_gc_push_arraylist": hasItems says whether the argument's record
\* type has a field named "items"; ItemsRegion is the region that field's
\* value denotes.
arraylistRootDepth(depth) == depth + 1

EvalCall_jl_gc_push_arraylist(hasItems, ItemsRegion) ==
    /\ Running
    /\ GCDepth < MaxDepth
    /\ last' = Op("jl_gc_push_arraylist", IF hasItems THEN ItemsRegion ELSE NoRegion)
    /\ GCDepth' = GCDepth + 1
    /\ GCRootMap' = IF hasItems
                    THEN [GCRootMap EXCEPT ![ItemsRegion] =
                              getRootArray(arraylistRootDepth(GCDepth))]
                    ELSE GCRootMap
    /\ reports' = {}
    /\ halted' = FALSE
    /\ UNCHANGED <<GCDisabledAt, SafepointDisabledAt, GCValueMap, Stack>>

\* name == "jl_ast_preserve"
EvalCall_jl_ast_preserve(Sym) ==
    /\ Running
    /\ last' = Op("jl_ast_preserve", Sym)
    /\ GCValueMap' = IF Sym = NoSym THEN GCValueMap
                     ELSE [GCValueMap EXCEPT ![Sym] = getRooted(NoRegion, -1)]
    /\ reports' = {}
    /\ halted' = FALSE
    /\ UNCHANGED <<GCDepth, GCDisabledAt, SafepointDisabledAt, GCRootMap, Stack>>

\* A faulty variant of gcEnableDisabledAt that disables GC at the height of
\* the top frame, as an annotated function entered there would.
gcEnableDisabledAt_topHeight(EnabledAfter) ==
    IF ~EnabledAfter THEN 1 ELSE UNSIGNED_M1

\* name == "jl_gc_enable" || name == "ijl_gc_enable": arg is the literal
\* argument ("0" or "1"), "conj" when the argument is not a concrete integer
\* and its value is a conjured symbol, or "sym" when it is not a concrete
\* integer and its value is another symbol or no symbol at all.
gcEnableDisabledAt(EnabledAfter) ==
    IF ~EnabledAfter THEN UNSIGNED_M2 ELSE UNSIGNED_M1

\* The truth value the handler binds to the call expression.
gcEnableResult(EnabledNow) == EnabledNow

\* The record jl_gc_enable leaves in last: as Op, with the value bound to the
\* call expression.
OpResult(op, tag, result) == [op |-> op, tag |-> tag, result |-> result]

\* The handler run to its end, with EnabledAfter as the argument gave it.
gcEnableCompleted(arg, EnabledAfter) ==
    LET EnabledNow == gcEnabledHere(GCDisabledAt)
    IN  /\ GCDisabledAt' = gcEnableDisabledAt(EnabledAfter)
        /\ last' = OpResult("jl_gc_enable", arg, gcEnableResult(EnabledNow))
        /\ reports' = {}
        /\ halted' = FALSE
        /\ UNCHANGED <<GCDepth, SafepointDisabledAt, GCValueMap, GCRootMap, Stack>>

\* The analysis aborted inside the handler: no transition and no report.
gcEnableAborted(arg) ==
    /\ last' = Op("jl_gc_enable", arg)
    /\ reports' = {}
    /\ halted' = TRUE
    /\ UNCHANGED <<chk, Stack>>

\* For an argument that is not a concrete integer the handler evaluates
\* cast<SymbolConjured>(Arg.getAsSymbol())->getStmt()->dump().  With a
\* conjured symbol that prints and goes on with EnabledAfter = true.  With
\* any other symbol, or none, the cast is invalid: the behaviour is
\* undefined, the build either aborts there (failed assertion, invalid
\* access) or goes on as for a conjured symbol.
EvalCall_jl_gc_enable(arg) ==
    /\ Running
    /\ IF arg \in {"0", "1"} THEN gcEnableCompleted(arg, arg # "0")
       ELSE IF arg = "conj" THEN gcEnableCompleted(arg, TRUE)
       ELSE \/ gcEnableAborted(arg)
            \/ gcEnableCompleted(arg, TRUE)

-----------------------------------------------------------------------------
(* Call events: callee declarations and argument values. *)

\* A parameter of a callee: whether its type is GC tracked, whether it is a
\* pointer to a tracked pointer (an out parameter), and the set of its
\* annotations.
CParm(tracked, outParam, anns) ==
    [tracked |-> tracked, outParam |-> outParam,
     maybeUnrooted |-> "julia_maybe_unrooted" \in anns,
     rootingArg |-> "julia_rooting_argument" \in anns,
     rootedArg |-> "julia_rooted_argument" \in anns,
     propagatesRoot |-> "julia_propagates_root" \in anns,
     temporarilyRoots |-> "julia_temporarily_roots" \in anns]

\* A callee as isSafepoint and the post-call steps see it.  calleeExpr is the
\* kind of the callee expression when there is no function declaration:
\* "none", "typedef_notsafepoint" (an elaborated typedef type annotated
\* julia_not_safepoint), "typedef", "pseudo_dtor" or "other".
\* hasOriginExpr: the call event has an origin expression; originIsCallExpr:
\* that expression is a CallExpr (it is none for a constructor call).
PlainCallee ==
    [name |-> "jl_apply", inSystemHeader |-> FALSE, namespace |-> "",
     hasDecl |-> TRUE, isFunction |-> TRUE, calleeExpr |-> "other",
     builtin |-> FALSE, trivial |-> FALSE, annNotSafepoint |-> FALSE,
     file |-> "julia.h", noReturn |-> FALSE, nsEnter |-> FALSE, nsLeave |-> FALSE,
     globallyRooted |-> FALSE, resultTracked |-> TRUE, resultGlobRoot |-> FALSE,
     hasOriginExpr |-> TRUE, originIsCallExpr |-> TRUE,
     params |-> <<CParm(TRUE, FALSE, {})>>]

\* An argument value.  kind "sym": a pointer value denoted by symbol sym (its
\* region is the symbolic region of sym); "loc": the address of a location
\* that holds symbol loaded; "lcv": a struct passed by value that lives in
\* the symbolic region of sym; "int": the concrete integer int.  tracked is
\* isGCTracked of the argument expression.
ArgSym(sym) == [kind |-> "sym", sym |-> sym, loaded |-> NoSym, int |-> 0, tracked |-> TRUE]

ArgLoc(loaded) == [kind |-> "loc", sym |-> NoSym, loaded |-> loaded, int |-> 0, tracked |-> TRUE]

ArgLCV(sym) == [kind |-> "lcv", sym |-> sym, loaded |-> NoSym, int |-> 0, tracked |-> TRUE]

ArgInt(n) == [kind |-> "int", sym |-> NoSym, loaded |-> NoSym, int |-> n, tracked |-> FALSE]

ArgUntrackedSym(sym) == [kind |-> "sym", sym |-> sym, loaded |-> NoSym, int |-> 0, tracked |-> FALSE]

\* SVal::getAsSymbol()
getAsSymbol(arg) == IF arg.kind = "sym" THEN arg.sym ELSE NoSym

\* Whether SVal::getAsRegion() is non-null, and that region's symbolic base.
hasRegion(arg) == arg.kind \in {"sym", "loc"}

regionBase(arg) == IF arg.kind = "sym" THEN arg.sym ELSE NoSym

isMutexLock(name) ==
    name \in {"uv_mutex_lock", "uv_mutex_trylock", "pthread_mutex_lock",
              "pthread_mutex_trylock", "__gthread_mutex_lock",
              "__gthread_mutex_trylock", "__gthread_recursive_mutex_lock",
              "__gthread_recursive_mutex_trylock", "pthread_spin_lock",
              "pthread_spin_trylock", "uv_rwlock_rdlock", "uv_rwlock_tryrdlock",
              "uv_rwlock_wrlock", "uv_rwlock_trywrlock"}

isMutexUnlock(name) ==
    name \in {"uv_mutex_unlock", "pthread_mutex_unlock", "__gthread_mutex_unlock",
              "__gthread_recursive_mutex_unlock", "pthread_spin_unlock",
              "uv_rwlock_rdunlock", "uv_rwlock_wrunlock"}

\* The names of the modelled callees that start with "uv_", "unw_" or "_U".
starts_with_uv_unw_U(name) ==
    name \in {"uv_mutex_lock", "uv_mutex_trylock", "uv_mutex_unlock",
              "uv_rwlock_rdlock", "uv_rwlock_tryrdlock", "uv_rwlock_wrlock",
              "uv_rwlock_trywrlock", "uv_rwlock_rdunlock", "uv_rwlock_wrunlock",
              "uv_run", "uv_write", "unw_step", "_Unwind_Resume"}

\* The names of the modelled callees that start with "jl_box_" or "ijl_box_",
\* and those among them that start with "jl_box_u" or "ijl_box_u".
starts_with_jl_box(name) ==
    name \in {"jl_box_int64", "ijl_box_int32", "jl_box_uint64", "ijl_box_uint8"}

starts_with_jl_box_u(name) == name \in {"jl_box_uint64", "ijl_box_uint8"}

\* GCChecker::isSafepoint
isSafepoint(callee) ==
    IF callee.inSystemHeader THEN FALSE
    ELSE IF callee.hasDecl /\ callee.namespace \in {"llvm", "std"} THEN FALSE
    ELSE IF ~callee.hasDecl \/ ~callee.isFunction
    THEN CASE callee.calleeExpr = "none" -> TRUE
           [] callee.calleeExpr = "typedef_notsafepoint" -> FALSE
           [] callee.calleeExpr = "typedef" -> TRUE
           [] callee.calleeExpr = "pseudo_dtor" -> FALSE
           [] OTHER -> TRUE
    ELSE IF callee.builtin \/ callee.trivial THEN FALSE
    ELSE IF starts_with_uv_unw_U(callee.name) /\ callee.name # "uv_run" THEN FALSE
    ELSE ~isFDAnnotatedNotSafepoint(callee)

hasFD(callee) == callee.hasDecl /\ callee.isFunction

-----------------------------------------------------------------------------
(* checkPostCall: its three steps *)

\* processArgumentRooting: the last julia_rooting_argument's region and the
\* last julia_rooted_argument's symbol.
RECURSIVE lastRootingArg(_, _, _, _)
lastRootingArg(params, args, i, acc) ==
    IF i > Len(params) THEN acc
    ELSE IF params[i].rootingArg
    THEN lastRootingArg(params, args, i + 1,
                        IF hasRegion(args[i])
                        THEN [has |-> TRUE, base |-> regionBase(args[i])]
                        ELSE [has |-> FALSE, base |-> NoSym])
    ELSE lastRootingArg(params, args, i + 1, acc)

RECURSIVE lastRootedArg(_, _, _, _)
lastRootedArg(params, args, i, acc) ==
    IF i > Len(params) THEN acc
    ELSE IF ~params[i].rootingArg /\ params[i].rootedArg
    THEN lastRootedArg(params, args, i + 1, getAsSymbol(args[i]))
    ELSE lastRootedArg(params, args, i + 1, acc)

processArgumentRooting(callee, args, vm) ==
    IF ~hasFD(callee) THEN vm
    ELSE LET RootingRegion == lastRootingArg(callee.params, args, 1,
                                             [has |-> FALSE, base |-> NoSym])
             RootedSymbol == lastRootedArg(callee.params, args, 1, NoSym)
         IN  IF ~RootingRegion.has \/ RootedSymbol = NoSym THEN vm
             ELSE LET OldVState == getValStateForRegion(vm, RootingRegion.base)
                  IN  IF ~hasState(OldVState) THEN vm
                      ELSE [vm EXCEPT ![RootedSymbol] = OldVState]

\* processPotentialSafepoint: the symbol the loop over the parameters leaves
\* in SpeciallyRootedSymbol.  An annotated out parameter overwrites it and the
\* loop continues; the first other annotated parameter sets it and ends the
\* loop.
RECURSIVE speciallyRootedSymbol(_, _, _, _, _)
speciallyRootedSymbol(params, args, i, vm, acc) ==
    IF i > Len(params) THEN acc
    ELSE IF params[i].temporarilyRoots
    THEN IF params[i].outParam
         THEN speciallyRootedSymbol(params, args, i + 1, vm, args[i].loaded)
         ELSE walkToRootNoState(vm, regionBase(args[i]))
    ELSE speciallyRootedSymbol(params, args, i + 1, vm, acc)

\* A faulty variant of freeUnrooted that frees rooted values as well.
freeUnrooted_rootedToo(vm, SpeciallyRootedSymbol, RetSym) ==
    [s \in Syms |-> IF /\ (isJustAllocated(vm[s]) \/ isRooted(vm[s]))
                       /\ s # SpeciallyRootedSymbol
                       /\ s # RetSym
                    THEN getFreed ELSE vm[s]]

\* The loop "symbolically free all unrooted values".
freeUnrooted(vm, SpeciallyRootedSymbol, RetSym) ==
    [s \in Syms |-> IF /\ isJustAllocated(vm[s])
                       /\ s # SpeciallyRootedSymbol
                       /\ s # RetSym
                    THEN getFreed ELSE vm[s]]

\* A faulty variant of processPotentialSafepoint that frees unrooted values
\* even while GC is disabled.
processPotentialSafepoint_gcIgnored(callee, args, RetSym, disabledAt, vm) ==
    IF ~isSafepoint(callee) THEN vm
    ELSE LET special == IF hasFD(callee)
                        THEN speciallyRootedSymbol(callee.params, args, 1, vm, NoSym)
                        ELSE NoSym
         IN  freeUnrooted(vm, special, RetSym)

processPotentialSafepoint(callee, args, RetSym, disabledAt, vm) ==
    IF ~isSafepoint(callee) THEN vm
    ELSE IF ~gcEnabledHere(disabledAt) THEN vm
    ELSE LET special == IF hasFD(callee)
                        THEN speciallyRootedSymbol(callee.params, args, 1, vm, NoSym)
                        ELSE NoSym
         IN  freeUnrooted(vm, special, RetSym)

\* processAllocationOfResult: the jl_box_ special case.
boxGloballyRooted(name, Value) ==
    IF starts_with_jl_box_u(name)
    THEN Value < NBOX_C
    ELSE (-(NBOX_C \div 2) < Value) /\ (Value < (NBOX_C - NBOX_C \div 2))

\* The first julia_propagates_root parameter (0 if none).
RECURSIVE firstPropagatesRoot(_, _)
firstPropagatesRoot(params, i) ==
    IF i > Len(params) THEN 0
    ELSE IF params[i].propagatesRoot THEN i
    ELSE firstPropagatesRoot(params, i + 1)

\* A faulty variant of resultValueState that consults the propagates-root
\* parameter before the callee's globally-rooted annotation.
resultValueState_propagatesFirst(callee, args, Sym, vm) ==
    IF callee.resultGlobRoot THEN getRooted(NoRegion, -1)
    ELSE LET NewVState == IF hasState(vm[Sym]) THEN vm[Sym] ELSE getAllocated
             i == firstPropagatesRoot(callee.params, 1)
             OldVState == IF i # 0 /\ hasRegion(args[i])
                          THEN getValStateForRegion(vm, regionBase(args[i]))
                          ELSE NoVS
         IN
      IF ~hasFD(callee) THEN NewVState
      ELSE IF hasState(OldVState) THEN OldVState
      ELSE IF callee.globallyRooted THEN getRooted(NoRegion, -1)
      ELSE IF starts_with_jl_box(callee.name)
      THEN IF Len(args) >= 1 /\ args[1].kind = "int"
                /\ boxGloballyRooted(callee.name, args[1].int)
           THEN getRooted(NoRegion, -1)
           ELSE NewVState
      ELSE NewVState

\* The state processAllocationOfResult gives the result symbol Sym.
resultValueState(callee, args, Sym, vm) ==
    IF callee.resultGlobRoot THEN getRooted(NoRegion, -1)
    ELSE LET NewVState == IF hasState(vm[Sym]) THEN vm[Sym] ELSE getAllocated IN
      IF ~hasFD(callee) THEN NewVState
      ELSE IF callee.globallyRooted THEN getRooted(NoRegion, -1)
      ELSE IF starts_with_jl_box(callee.name)
      THEN IF Len(args) >= 1 /\ args[1].kind = "int"
                /\ boxGloballyRooted(callee.name, args[1].int)
           THEN getRooted(NoRegion, -1)
           ELSE NewVState
      ELSE LET i == firstPropagatesRoot(callee.params, 1) IN
           IF i = 0 THEN NewVState
           ELSE LET OldVState == IF hasRegion(args[i])
                                 THEN getValStateForRegion(vm, regionBase(args[i]))
                                 ELSE NoVS
                IN  IF hasState(OldVState) THEN OldVState ELSE NewVState

processAllocationOfResult(callee, args, Sym, vm) ==
    IF ~callee.resultTracked THEN vm
    ELSE IF ~callee.hasOriginExpr THEN vm
    ELSE [vm EXCEPT ![Sym] = resultValueState(callee, args, Sym, vm)]

-----------------------------------------------------------------------------
(* checkPreCall and checkPostCall *)

\* The symbol checkPreCall examines for an argument (with the work-around for
\* structs passed by value).
preCallArgSym(arg) ==
    IF arg.kind = "lcv" THEN arg.sym ELSE getAsSymbol(arg)

\* The reports of the loop over the arguments, from argument idx on; rep
\* holds what the arguments before it left.
RECURSIVE preCallArgLoop(_, _, _, _, _, _)
preCallArgLoop(callee, args, vm, isCalleeSafepoint, idx, rep) ==
    IF idx > Len(args) THEN rep
    ELSE
      LET Sym == preCallArgSym(args[idx])
          next(r) == preCallArgLoop(callee, args, vm, isCalleeSafepoint, idx + 1, r)
      IN
      IF Sym = NoSym THEN next(rep)
      ELSE IF ~hasState(vm[Sym]) THEN next(rep)
      ELSE IF ~args[idx].tracked THEN next(rep)
      ELSE LET rep1 == IF isPotentiallyFreed(vm[Sym])
                       THEN emitReport(rep, Report("Argument value may have been GCed", Sym))
                       ELSE rep
           IN
           IF isRooted(vm[Sym]) THEN next(rep1)
           ELSE LET MaybeUnrooted == /\ hasFD(callee)
                                     /\ idx <= Len(callee.params)
                                     /\ callee.params[idx].maybeUnrooted
                IN  IF ~MaybeUnrooted /\ isCalleeSafepoint
                    THEN next(emitReport(rep1, Report("Passing non-rooted value as argument to function that may GC", Sym)))
                    ELSE next(rep1)

\* The reports of the loop over the arguments.
preCallArgReports(callee, args, vm, isCalleeSafepoint) ==
    preCallArgLoop(callee, args, vm, isCalleeSafepoint, 1, {})

\* A faulty variant of preCallUnlock that clears SafepointDisabledAt whatever
\* the stack height it was set for.
preCallUnlock_anyHeight(callee, curFD, height, spDisabledAt) ==
    IF /\ (isMutexUnlock(callee.name) \/ (hasFD(callee) /\ callee.nsLeave))
       /\ ~isFDAnnotatedNotSafepoint(curFD)
    THEN UNSIGNED_M1 ELSE spDisabledAt

\* SafepointDisabledAt after the unlock / julia_notsafepoint_leave step.
preCallUnlock(callee, curFD, height, spDisabledAt) ==
    IF /\ (isMutexUnlock(callee.name) \/ (hasFD(callee) /\ callee.nsLeave))
       /\ spDisabledAt = height
       /\ ~isFDAnnotatedNotSafepoint(curFD)
    THEN UNSIGNED_M1 ELSE spDisabledAt

\* The diagnostics checkPreCall reports, past the GC-enabled check and the
\* unlock step that left SafepointDisabledAt at sp1.
preCallReports(call, sp1, vm) ==
    LET isCalleeSafepoint == isSafepoint(call.callee)
        spErr == /\ ~safepointEnabledHere(sp1)
                 /\ isCalleeSafepoint
                 /\ (~hasFD(call.callee) \/ ~call.callee.noReturn)
    IN  IF spErr
        THEN {Report("Calling potential safepoint from function annotated JL_NOTSAFEPOINT", NoSym)}
        ELSE IF hasFD(call.callee) /\ call.callee.name = "JL_GC_PROMISE_ROOTED"
        THEN {}
        ELSE preCallArgReports(call.callee, call.args, vm, isCalleeSafepoint)

PreCall(call) ==
    /\ Running
    /\ last' = Op("PreCall", call.callee.name)
    /\ IF ~gcEnabledHere(GCDisabledAt)
       THEN /\ reports' = {}
            /\ halted' = FALSE
            /\ UNCHANGED <<chk, Stack>>
       ELSE LET sp1 == preCallUnlock(call.callee, CurFD, getStackFrameHeight(Stack),
                                     SafepointDisabledAt)
                transitioned == sp1 # SafepointDisabledAt
                rep == preCallReports(call, sp1, GCValueMap)
            IN  /\ SafepointDisabledAt' = sp1
                /\ reports' = rep
                /\ halted' = (rep # {} /\ ~transitioned)
                /\ UNCHANGED <<GCDepth, GCDisabledAt, GCValueMap, GCRootMap, Stack>>

\* A faulty variant of postCallValueMap that classifies the result before the
\* safepoint is processed.
postCallValueMap_resultFirst(call, disabledAt, vm) ==
    LET vm1 == processArgumentRooting(call.callee, call.args, vm)
        Sym == IF call.ret # NoSym THEN call.ret ELSE call.conj
        vm2 == processAllocationOfResult(call.callee, call.args, Sym, vm1)
    IN  processPotentialSafepoint(call.callee, call.args, call.ret, disabledAt, vm2)

\* checkPostCall: the value map after its three steps, in their order.
postCallValueMap(call, disabledAt, vm) ==
    LET vm1 == processArgumentRooting(call.callee, call.args, vm)
        vm2 == processPotentialSafepoint(call.callee, call.args, call.ret,
                                         disabledAt, vm1)
        Sym == IF call.ret # NoSym THEN call.ret ELSE call.conj
    IN  processAllocationOfResult(call.callee, call.args, Sym, vm2)

\* call = [callee, args, ret, conj]: ret is the symbol of the call's return
\* value (NoSym if it has none), conj the fresh symbol conjured for the
\* result in that case.  A call passes at least one argument for every
\* parameter of its callee, and more to a variadic callee.  The engine runs
\* checkPostCall for every call whose checkPreCall did not end the path
\* (halted); between the two callbacks it runs evalCall or the body of an
\* inlined callee, so the state checkPostCall finds need not be one that
\* checkPreCall would let through.
PostCall(call) ==
    /\ Running
    /\ Len(call.args) >= Len(call.callee.params)
    /\ IF call.ret = NoSym /\ call.callee.resultTracked /\ call.callee.hasOriginExpr
       THEN call.conj \in ConjuredSyms /\ ~hasState(GCValueMap[call.conj])
       ELSE call.conj = NoSym
    /\ GCValueMap' = postCallValueMap(call, GCDisabledAt, GCValueMap)
    /\ last' = Op("PostCall", call.callee.name)
    /\ reports' = {}
    /\ halted' = FALSE
    /\ UNCHANGED <<GCDepth, GCDisabledAt, SafepointDisabledAt, GCRootMap, Stack>>

\* A faulty variant of lockSafepointDisabledAt that records the height of
\* every lock, nested ones too.
lockSafepointDisabledAt_nested(callee, height, spDisabledAt) ==
    IF isMutexLock(callee.name) \/ (hasFD(callee) /\ callee.nsEnter)
    THEN height ELSE spDisabledAt

\* evalCall, past the intrinsics: a mutex lock or a julia_notsafepoint_enter
\* callee disables safepoints at the current stack height, unless they are
\* disabled already.
lockSafepointDisabledAt(callee, height, spDisabledAt) ==
    IF /\ (isMutexLock(callee.name) \/ (hasFD(callee) /\ callee.nsEnter))
       /\ spDisabledAt = UNSIGNED_M1
    THEN height ELSE spDisabledAt

\* evalCall first takes CE = dyn_cast<CallExpr>(Call.getOriginExpr()).  For a
\* call event without an origin expression the cast is applied to a null
\* pointer and the analysis aborts there; for an origin expression that is no
\* CallExpr (a constructor call) evalCall returns false and leaves the state
\* as it is.
EvalCall_lock(callee) ==
    /\ Running
    /\ isMutexLock(callee.name) \/ (hasFD(callee) /\ callee.nsEnter)
    /\ last' = Op("lock", callee.name)
    /\ reports' = {}
    /\ IF ~callee.hasOriginExpr
       THEN /\ halted' = TRUE
            /\ UNCHANGED SafepointDisabledAt
       ELSE IF ~callee.originIsCallExpr
       THEN /\ halted' = FALSE
            /\ UNCHANGED SafepointDisabledAt
       ELSE /\ halted' = FALSE
            /\ SafepointDisabledAt' =
                   lockSafepointDisabledAt(callee, getStackFrameHeight(Stack),
                                           SafepointDisabledAt)
    /\ UNCHANGED <<GCDepth, GCDisabledAt, GCValueMap, GCRootMap, Stack>>

-----------------------------------------------------------------------------
(* Regions as the bind / location / derivation callbacks see them. *)

\* A global variable declaration behind a region: tracked is
\* isGCTrackedType(VD->getType()), rooted is "annotated julia_globally_rooted
\* or of a globally rooted type", valueSym the symbol the variable holds.
\* NoGlobal stands for a region that is no global VarRegion.
Global(region, tracked, rooted, valueSym) ==
    [isGlobal |-> TRUE, region |-> region, tracked |-> tracked, rooted |-> rooted,
     valueSym |-> valueSym]

NoGlobal ==
    [isGlobal |-> FALSE, region |-> NoRegion, tracked |-> FALSE, rooted |-> FALSE,
     valueSym |-> NoSym]

\* A region: its own name, whether it is an ElementRegion, the name of its
\* base (super) region with casts stripped, the global variable its base
\* region is (or NoGlobal), its symbolic base, and whether it is itself a
\* symbolic region (SVal::getAsSymbol(false) is its symbol).
Reg(name, isElement, base, global, symBase, isSymbolic) ==
    [name |-> name, isElement |-> isElement, base |-> base, global |-> global,
     symBase |-> symBase, isSymbolic |-> isSymbolic]

NoReg == Reg(NoRegion, FALSE, NoRegion, NoGlobal, NoSym, FALSE)

\* GCChecker::rootRegionIfGlobal.  G is the global behind the region (NoGlobal
\* when the region is no VarRegion with global storage), vm0 the value map of
\* C.getState(), rm / vm the maps of the State being built.
rootRegionIfGlobal(G, rm, vm, vm0) ==
    IF ~G.isGlobal \/ ~G.tracked
    THEN [ok |-> FALSE, rm |-> rm, vm |-> vm, vs |-> NoVS]
    ELSE LET isGlobalRoot == G.rooted
             TheValS == IF isGlobalRoot THEN getRooted(G.region, -1) ELSE getAllocated
             Sym == G.valueSym
         IN  [ok |-> TRUE,
              rm |-> IF isGlobalRoot THEN [rm EXCEPT ![G.region] = getRoot(-1)] ELSE rm,
              vm |-> IF Sym # NoSym /\ ~hasState(vm0[Sym])
                     THEN [vm EXCEPT ![Sym] = TheValS] ELSE vm,
              vs |-> TheValS]

-----------------------------------------------------------------------------
(* checkBind *)

\* A faulty variant of bindRootedValue that leaves every rooted value as it
\* is, however deep its root.
bindRootedValue_keepRooted(RValState, R, RS) ==
    IF ~isRooted(RValState) THEN getRooted(R, RS.RootedAtDepth) ELSE RValState

\* The state checkBind gives a value stored into a registered root slot.
bindRootedValue(RValState, R, RS) ==
    IF ~isRooted(RValState) \/ RValState.RootDepth > RS.RootedAtDepth
    THEN getRooted(R, RS.RootedAtDepth)
    ELSE RValState

\* checkBind: the outcome [rm, vm, rep, trans] for the store of symbol Sym to
\* region L; origin is the global Sym->getOriginRegion() is (or NoGlobal).
checkBind(L, Sym, origin, rm, vm) ==
    LET same == [rm |-> rm, vm |-> vm, rep |-> {}, trans |-> FALSE]
        R == IF L.isElement THEN L.base ELSE L.name
        shouldBeRootArray == L.isElement
    IN
    IF L.name = NoRegion THEN same
    ELSE IF Sym = NoSym THEN same
    ELSE IF ~hasRoot(rm[R])
    THEN LET g == rootRegionIfGlobal(L.global, rm, vm, vm)
             ValSP == IF g.ok THEN g.vs ELSE getValStateForRegion(vm, L.symBase)
             RValState == vm[Sym]
         IN  IF ~hasState(ValSP) \/ ~isRooted(ValSP) THEN same
             ELSE IF hasState(RValState) /\ isRooted(RValState)
                     /\ RValState.RootDepth < ValSP.RootDepth
             THEN same
             ELSE [rm |-> g.rm, vm |-> [g.vm EXCEPT ![Sym] = ValSP], rep |-> {},
                   trans |-> TRUE]
    ELSE IF shouldBeRootArray /\ ~isRootArray(rm[R])
    THEN [same EXCEPT !.rep =
            {Report("This assignment looks weird. Expected a root array on the LHS.", NoSym)}]
    ELSE LET RValState == vm[Sym] IN
      IF ~hasState(RValState)
      THEN LET g == rootRegionIfGlobal(origin, rm, vm, vm) IN
           IF g.ok THEN [rm |-> g.rm, vm |-> g.vm, rep |-> {}, trans |-> TRUE]
           ELSE [same EXCEPT !.rep =
                   {Report("Saw assignment to root, but missed the allocation", Sym)}]
      ELSE LET new == bindRootedValue(RValState, R, rm[R]) IN
           [rm |-> rm,
            vm |-> [vm EXCEPT ![Sym] = new],
            rep |-> IF isPotentiallyFreed(RValState)
                    THEN {Report("Trying to root value which may have been GCed", Sym)}
                    ELSE {},
            trans |-> new # RValState]

Bind(L, Sym, origin) ==
    /\ Running
    /\ LET r == checkBind(L, Sym, origin, GCRootMap, GCValueMap) IN
       /\ GCRootMap' = r.rm
       /\ GCValueMap' = r.vm
       /\ reports' = r.rep
       /\ halted' = (r.rep # {} /\ ~r.trans)
    /\ last' = Op("Bind", L.base)
    /\ UNCHANGED <<GCDepth, GCDisabledAt, SafepointDisabledAt, Stack>>

-----------------------------------------------------------------------------
(* checkLocation *)

\* A faulty variant of loadRootedValue that re-roots every loaded value by
\* the slot it is loaded from.
loadRootedValue_always(ValS, R, RS) == getRooted(R, RS.RootedAtDepth)

\* The state a load through a registered root slot gives the loaded symbol.
loadRootedValue(ValS, R, RS) ==
    IF ~hasState(ValS) \/ ~isRooted(ValS) \/ ValS.RootDepth > RS.RootedAtDepth
    THEN getRooted(R, RS.RootedAtDepth)
    ELSE ValS

\* checkLocation: the outcome [rm, vm, rep, trans] for an access to region
\* SLoc that holds symbol LoadedSym.
checkLocation(SLoc, IsLoad, LoadedSym, rm, vm) ==
    LET RS == IF SLoc.name = NoRegion THEN NoRS ELSE rm[SLoc.name]
        vm1 == IF IsLoad /\ hasRoot(RS) /\ LoadedSym # NoSym
               THEN [vm EXCEPT ![LoadedSym] = loadRootedValue(vm[LoadedSym], SLoc.name, RS)]
               ELSE vm
        DidChange == vm1 # vm
        g == rootRegionIfGlobal(IF SLoc.isElement \/ SLoc.name # SLoc.base
                                THEN NoGlobal ELSE SLoc.global, rm, vm1, vm)
        Sym == SLoc.symBase
    IN  IF g.ok THEN [rm |-> g.rm, vm |-> g.vm, rep |-> {}, trans |-> TRUE]
        ELSE IF SLoc.isSymbolic THEN [rm |-> rm, vm |-> vm1, rep |-> {}, trans |-> DidChange]
        ELSE IF Sym = NoSym THEN [rm |-> rm, vm |-> vm1, rep |-> {}, trans |-> DidChange]
        ELSE IF ~hasState(vm1[Sym]) THEN [rm |-> rm, vm |-> vm1, rep |-> {}, trans |-> DidChange]
        ELSE [rm |-> rm, vm |-> vm1,
              rep |-> IF isPotentiallyFreed(vm1[Sym])
                      THEN {Report("Trying to access value which may have been GCed", Sym)}
                      ELSE {},
              trans |-> DidChange]

Location(SLoc, IsLoad, LoadedSym) ==
    /\ Running
    /\ LET r == checkLocation(SLoc, IsLoad, LoadedSym, GCRootMap, GCValueMap) IN
       /\ GCRootMap' = r.rm
       /\ GCValueMap' = r.vm
       /\ reports' = r.rep
       /\ halted' = (r.rep # {} /\ ~r.trans)
    /\ last' = Op("Location", SLoc.name)
    /\ UNCHANGED <<GCDepth, GCDisabledAt, SafepointDisabledAt, Stack>>

-----------------------------------------------------------------------------
(* checkPostStmt / checkDerivingExpr *)

\* A deriving expression as the engine describes it to the checker:
\*   resultGlobRoot  isGloballyRootedType(Result->getType())
\*   resultTracked   isGCTracked(Result)
\*   parentTracked   isGCTracked(Parent)
\*   carveOut        the parent is a jl_module_t and the result an arraylist_t
\*   isPtr           the result type is a non-void pointer type
\*   isUnknown       the result's value is unknown, C.getSVal(Result).isUnknown()
\*   isLoc           the result's value is a location
\*   loaded          the symbol the result location holds (NoSym if none)
\*   conj            the symbol conjured for it when it holds none
\*   OldSym          the parent's symbol, ParentVal.getAsSymbol(true)
\*   parent          the parent's region: "none", "param" (the VarRegion of a
\*                   ParmVarDecl), "global" (walks back to a global) or "other"
\*   parmMaybeUnrooted  that parameter is annotated julia_maybe_unrooted
\*   global          the global variable walked back to
\*   sub             the path from the base of the parent's region down to
\*                   that region: "" when the parent's value is the base
\*                   region itself, ".f" for a field of it, "[0]" for an
\*                   element
\*   region          the parent's own region, C.getSVal(Parent).getAsRegion()
SymRegion(sym) == "SymRegion{" \o sym \o "}"

\* The region of a parent, C.getSVal(Parent).getAsRegion(): none, the
\* VarRegion of the parameter ("parm"), or the field or element sub of its
\* base region, which is the symbolic region of the parent's symbol, the
\* global variable, or a region of no interest ("other").
parentRegion(OldSym, parent, global, sub) ==
    IF parent = "none" THEN NoRegion
    ELSE IF parent = "param" THEN "parm"
    ELSE IF OldSym # NoSym THEN SymRegion(OldSym) \o sub
    ELSE IF parent = "global" THEN global.region \o sub
    ELSE "other" \o sub

\* A deriving expression whose result has a known value that is a location,
\* outside the module / arraylist case; the descriptions of the other
\* expressions are obtained from these by setting isUnknown, isLoc or
\* carveOut.
Deriv(resultGlobRoot, resultTracked, parentTracked, isPtr, loaded, conj, OldSym, parent, parmMaybeUnrooted, global, sub) ==
    [resultGlobRoot |-> resultGlobRoot, resultTracked |-> resultTracked,
     parentTracked |-> parentTracked, carveOut |-> FALSE, isPtr |-> isPtr,
     isUnknown |-> FALSE, isLoc |-> TRUE, loaded |-> loaded, conj |-> conj,
     OldSym |-> OldSym, parent |-> parent, parmMaybeUnrooted |-> parmMaybeUnrooted,
     global |-> global, sub |-> sub,
     region |-> parentRegion(OldSym, parent, global, sub)]

\* GCChecker::getSymbolForResult.  valIsLoc is whether the value the State
\* handed in gives the result is a location.
getSymbolForResult(d, valIsLoc, hasOldValS) ==
    IF ~d.isPtr THEN NoSym
    ELSE IF ~valIsLoc THEN NoSym
    ELSE IF d.loaded # NoSym THEN d.loaded
    ELSE IF hasOldValS \/ d.resultTracked THEN d.conj
    ELSE NoSym

\* Whether the result's value is a location in the state of the callback,
\* C.getState(): an unknown value is none.
resultIsLoc(d) == ~d.isUnknown /\ d.isLoc

\* Whether it is one in the State of checkDerivingExpr, which has bound a
\* conjured pointer value to a result of pointer type whose value was
\* unknown.
resultIsLocBound(d) == IF d.isUnknown THEN d.isPtr ELSE d.isLoc

\* A conjured symbol is fresh: the value map holds no state for it.
freshConj(d, vm) ==
    /\ d.conj # NoSym => (/\ d.conj \in ConjuredSyms
                       /\ d.loaded = NoSym
                       /\ ~hasState(vm[d.conj]))
    /\ (d.isUnknown /\ d.loaded # NoSym) => ~hasState(vm[d.loaded])

\* The value checkDerivingExpr gives the derived symbol when its parent is a
\* parameter or walks back to a global: Updated, preset to
\* getRooted(Region, -1) with the parent's own region.
derivedFromRegion(d, curFD) ==
    IF d.parent = "param"
    THEN getForArgument(d.parmMaybeUnrooted, ~isFDAnnotatedNotSafepoint(curFD))
    ELSE getRooted(d.region, -1)

\* A faulty variant of isResultTracked that tracks every derived value.
isResultTracked_always(d) == TRUE

\* The flag ResultTracked of checkDerivingExpr: cleared when the result is
\* not tracked while its parent is, the module / arraylist case apart.
isResultTracked(d) == ~(~d.resultTracked /\ ~d.carveOut /\ d.parentTracked)

\* A faulty variant of markUntracked with the test inverted.
markUntracked_inverted(d) == ~d.resultTracked

\* Whether a derived value whose parent has no state is marked Untracked.
markUntracked(d) == d.resultTracked

\* A faulty variant of derivedFromFreed that hands the parent's state on
\* instead of reporting.
derivedFromFreed_inherit(same, NewSym, OldSym) ==
    [same EXCEPT !.vm = [same.vm EXCEPT ![NewSym] = same.vm[OldSym]], !.trans = TRUE]

\* The outcome of a derivation from a parent that may have been freed.
derivedFromFreed(same, NewSym, OldSym) ==
    [same EXCEPT !.rep =
       {Report("Creating derivative of value that may have been GCed", OldSym)}]

\* GCChecker::checkDerivingExpr: the outcome [rm, vm, rep, trans].
checkDerivingExpr(d, curFD, rm, vm) ==
    LET same == [rm |-> rm, vm |-> vm, rep |-> {}, trans |-> FALSE] IN
    IF d.resultGlobRoot
    THEN LET NewSym == getSymbolForResult(d, resultIsLoc(d), FALSE) IN
         IF NewSym = NoSym THEN same
         ELSE IF isRooted(vm[NewSym]) /\ vm[NewSym].RootDepth = -1 THEN same
         ELSE [same EXCEPT !.vm = [vm EXCEPT ![NewSym] = getRooted(NoRegion, -1)],
                           !.trans = TRUE]
    ELSE
    LET ResultTracked == isResultTracked(d)
        OldValS == IF d.OldSym # NoSym THEN vm[d.OldSym] ELSE NoVS
        NewSym == getSymbolForResult(d, resultIsLocBound(d), hasState(OldValS))
    IN
    IF ~resultIsLocBound(d) THEN same
    ELSE IF NewSym = NoSym THEN same
    ELSE
    LET NewValS == vm[NewSym]
        g == IF d.region # NoRegion /\ d.parent = "global"
             THEN rootRegionIfGlobal(d.global, rm, vm, vm)
             ELSE [ok |-> FALSE, rm |-> rm, vm |-> vm, vs |-> NoVS]
        inheritedState == /\ d.region # NoRegion
                          /\ d.parent = "param" \/ (d.parent = "global" /\ g.ok)
    IN
    IF inheritedState /\ ResultTracked
    THEN [rm |-> g.rm, vm |-> [g.vm EXCEPT ![NewSym] = derivedFromRegion(d, curFD)],
          rep |-> {}, trans |-> TRUE]
    ELSE IF hasState(NewValS) /\ isRooted(NewValS) THEN same
    ELSE IF ~hasState(OldValS)
    THEN IF markUntracked(d)
         THEN [rm |-> g.rm, vm |-> [g.vm EXCEPT ![NewSym] = getUntracked],
               rep |-> {}, trans |-> TRUE]
         ELSE same
    ELSE IF isPotentiallyFreed(OldValS)
    THEN derivedFromFreed(same, NewSym, d.OldSym)
    ELSE IF ResultTracked
    THEN [rm |-> g.rm, vm |-> [g.vm EXCEPT ![NewSym] = OldValS], rep |-> {},
          trans |-> TRUE]
    ELSE same

ApplyOutcome(r) ==
    /\ GCRootMap' = r.rm
    /\ GCValueMap' = r.vm
    /\ reports' = r.rep
    /\ halted' = (r.rep # {} /\ ~r.trans)
    /\ UNCHANGED <<GCDepth, GCDisabledAt, SafepointDisabledAt, Stack>>

\* checkPostStmt(const CStyleCastExpr *): Sym is the symbol of the cast's value.
PostStmt_CStyleCast(globRootWritten, Sym) ==
    /\ Running
    /\ ApplyOutcome([rm |-> GCRootMap,
                     vm |-> IF globRootWritten /\ Sym # NoSym
                            THEN [GCValueMap EXCEPT ![Sym] = getRooted(NoRegion, -1)]
                            ELSE GCValueMap,
                     rep |-> {}, trans |-> globRootWritten /\ Sym # NoSym])
    /\ last' = Op("CStyleCast", Sym)

\* The depth checkPostStmt(ArraySubscriptExpr) roots the element at.
subscriptRootDepth(RS, depth) == depth

\* A faulty variant of rootSlotValue that unroots a value found rooted.
rootSlotValue_demote(Existing, ValS) ==
    IF hasState(Existing) /\ isRooted(Existing) THEN getAllocated ELSE ValS

\* The rooted state the subscript / member special case gives NewSym.
rootSlotValue(Existing, ValS) ==
    IF hasState(Existing) /\ isRooted(Existing) /\ Existing.RootDepth < ValS.RootDepth
    THEN Existing ELSE ValS

\* checkPostStmt(const ArraySubscriptExpr *): LHS is the region of the
\* subscript's base expression, tracked is isGCTracked(ASE).  The base
\* expression is the parent of the derivation, so its region is LHS.
PostStmt_ArraySubscript(LHS, tracked, d) ==
    /\ Running
    /\ freshConj(d, GCValueMap)
    /\ LET RS == IF LHS.isElement THEN GCRootMap[LHS.base] ELSE NoRS IN
       IF LHS.name # NoRegion /\ LHS.isElement /\ tracked /\ hasRoot(RS)
       THEN LET ValS == getRooted(LHS.name, subscriptRootDepth(RS, GCDepth))
                NewSym == getSymbolForResult(d, resultIsLoc(d), TRUE)
            IN  IF NewSym = NoSym
                THEN ApplyOutcome([rm |-> GCRootMap, vm |-> GCValueMap, rep |-> {},
                                   trans |-> FALSE])
                ELSE ApplyOutcome([rm |-> GCRootMap,
                         vm |-> [GCValueMap EXCEPT ![NewSym] =
                                    rootSlotValue(GCValueMap[NewSym], ValS)],
                         rep |-> {}, trans |-> TRUE])
       ELSE ApplyOutcome(checkDerivingExpr([d EXCEPT !.region = LHS.name], CurFD,
                                           GCRootMap, GCValueMap))
    /\ last' = Op("ArraySubscript", LHS.name)

\* checkPostStmt(const MemberExpr *): Region is the member's own region.
PostStmt_Member(Region, tracked, d) ==
    /\ Running
    /\ freshConj(d, GCValueMap)
    /\ LET RS == IF Region.name # NoRegion THEN GCRootMap[Region.name] ELSE NoRS IN
       IF Region.name # NoRegion /\ tracked /\ hasRoot(RS)
       THEN LET ValS == getRooted(Region.name, RS.RootedAtDepth)
                NewSym == getSymbolForResult(d, resultIsLoc(d), TRUE)
            IN  IF NewSym = NoSym
                THEN ApplyOutcome([rm |-> GCRootMap, vm |-> GCValueMap, rep |-> {},
                                   trans |-> FALSE])
                ELSE ApplyOutcome([rm |-> GCRootMap,
                         vm |-> [GCValueMap EXCEPT ![NewSym] =
                                    rootSlotValue(GCValueMap[NewSym], ValS)],
                         rep |-> {}, trans |-> TRUE])
       ELSE IF ~d.isPtr
       THEN ApplyOutcome([rm |-> GCRootMap, vm |-> GCValueMap, rep |-> {},
                          trans |-> FALSE])
       ELSE ApplyOutcome(checkDerivingExpr(d, CurFD, GCRootMap, GCValueMap))
    /\ last' = Op("Member", Region.name)

\* checkPostStmt(const UnaryOperator *) for UO_Deref.
PostStmt_Deref(d) ==
    /\ Running
    /\ freshConj(d, GCValueMap)
    /\ ApplyOutcome(checkDerivingExpr(d, CurFD, GCRootMap, GCValueMap))
    /\ last' = Op("Deref", d.OldSym)

-----------------------------------------------------------------------------
(* The inputs the actions are exercised on. *)

R_x == Reg("x", FALSE, "x", NoGlobal, NoSym, FALSE)

R_y == Reg("y", FALSE, "y", NoGlobal, NoSym, FALSE)

R_arr0 == Reg("arr[0]", TRUE, "arr", NoGlobal, NoSym, FALSE)

R_items0 == Reg("items[0]", TRUE, "items", NoGlobal, NoSym, FALSE)

R_fld == Reg("fld", FALSE, "fld", NoGlobal, "a", FALSE)

R_bfld == Reg("bfld", FALSE, "bfld", NoGlobal, "b", FALSE)

G_plain == Global("g", TRUE, FALSE, "b")

G_root == Global("gr", TRUE, TRUE, "b")

R_g == Reg("g", FALSE, "g", G_plain, NoSym, FALSE)

R_gr == Reg("gr", FALSE, "gr", G_root, NoSym, FALSE)

SlotSyms == {"a", "b", NoSym}

SlotArgs == {[region |-> r, sym |-> s] : r \in {"x", "y"}, s \in SlotSyms}

NotASlot == [region |-> NoRegion, sym |-> NoSym]

PushArgLists ==
    {<<s>> : s \in SlotArgs \cup {NotASlot}}
    \cup {<<[region |-> "x", sym |-> s], [region |-> "y", sym |-> t]>> :
            s \in {"a"}, t \in {"a", "b"}}
    \cup {<<[region |-> "x", sym |-> "a"], NotASlot>>}

NoRet == [tracked |-> FALSE, sym |-> NoSym]

Rets == {NoRet} \cup {[tracked |-> TRUE, sym |-> s] : s \in {"a", "b"}}

\* Callees.
C_safe == PlainCallee

C_alloc == [PlainCallee EXCEPT !.name = "jl_alloc", !.params = <<>>]

C_notsafe == [PlainCallee EXCEPT !.name = "jl_typeof", !.annNotSafepoint = TRUE,
                                 !.resultTracked = FALSE]

TempRoot == {"julia_temporarily_roots", "julia_maybe_unrooted"}

C_temp == [PlainCallee EXCEPT !.name = "jl_temp", !.resultTracked = FALSE,
             !.params = <<CParm(TRUE, FALSE, TempRoot)>>]

C_temp2 == [PlainCallee EXCEPT !.name = "jl_temp2", !.resultTracked = FALSE,
              !.params = <<CParm(TRUE, FALSE, TempRoot), CParm(TRUE, FALSE, TempRoot)>>]

C_rooting == [PlainCallee EXCEPT !.name = "jl_svecset", !.resultTracked = FALSE,
                !.params = <<CParm(TRUE, FALSE, {"julia_rooting_argument"}),
                             CParm(TRUE, FALSE, {"julia_rooted_argument"})>>]

C_prop == [PlainCallee EXCEPT !.name = "jl_svecref",
             !.params = <<CParm(TRUE, FALSE, {"julia_propagates_root"})>>]

C_globroot == [PlainCallee EXCEPT !.name = "jl_symbol", !.globallyRooted = TRUE,
                                  !.params = <<>>]

CallOf(callee, args, ret, conj) ==
    [callee |-> callee, args |-> args, ret |-> ret, conj |-> conj]

ValueCalls ==
    {CallOf(C_alloc, <<>>, r, NoSym) : r \in {"a", "b"}}
    \cup {CallOf(C_safe, <<ArgSym(s)>>, r, NoSym) : s \in {"a", "b"}, r \in {"c"}}
    \cup {CallOf(C_notsafe, <<ArgSym(s)>>, NoSym, NoSym) : s \in {"a"}}
    \cup {CallOf(C_temp, <<ArgSym(s)>>, NoSym, NoSym) : s \in {"a", "c"}}
    \cup {CallOf(C_temp2, <<ArgSym("a"), ArgSym("b")>>, NoSym, NoSym)}
    \cup {CallOf(C_rooting, <<ArgSym(s), ArgSym(t)>>, NoSym, NoSym) :
            s \in {"a"}, t \in {"b"}}
    \cup {CallOf(C_prop, <<ArgSym(s)>>, r, NoSym) : s \in {"a"}, r \in {"c"}}
    \cup {CallOf(C_globroot, <<>>, r, NoSym) : r \in {"b"}}

D_field(loaded, OldSym) ==
    Deriv(FALSE, TRUE, TRUE, TRUE, loaded, NoSym, OldSym, "other", FALSE, NoGlobal, "")

\* A dereference of tracked type whose parent denotes no symbol and whose
\* result location holds the symbol c.
D_unknownParent ==
    Deriv(FALSE, TRUE, TRUE, TRUE, "c", NoSym, NoSym, "other", FALSE, NoGlobal, "")

Init ==
    /\ GCDepth = TRAIT_DEFAULT
    /\ GCDisabledAt = TRAIT_DEFAULT
    /\ SafepointDisabledAt = TRAIT_DEFAULT
    /\ GCValueMap = [s \in Syms |-> NoVS]
    /\ GCRootMap = [R \in Regions |-> NoRS]
    /\ Stack = <<>>
    /\ last = Op("Init", "")
    /\ reports = {}
    /\ halted = FALSE

-----------------------------------------------------------------------------
(* Specifications.  Each exercises the handlers one group of properties is  *)
(* about; all share Init and the handlers above.                            *)

OneSlot == {<<[region |-> "x", sym |-> s]>> : s \in {"b", NoSym}}

\* Root frames in a function body: pushes, pops, stores, loads, subscripts.
\* arr[i] for an index the engine knows nothing about: the value of the
\* subscript is unknown, and its base denotes no symbol.
D_unknownElement ==
    [Deriv(FALSE, TRUE, TRUE, TRUE, NoSym, "c", NoSym, "other", FALSE, NoGlobal, "[0]")
       EXCEPT !.isUnknown = TRUE, !.isLoc = FALSE]

RootSubscripts ==
    {[lhs |-> L, d |-> D_field("b", NoSym)] : L \in {R_arr0, R_items0}}
    \cup {[lhs |-> R_arr0, d |-> D_unknownElement]}

Next ==
    \/ \E args \in {<<NoSym, NoSym>>, <<"a", "b">>} : BeginFunction(F_plain, args)
    \/ EndFunction(NoRet)
    \/ EvalCall_JL_GC_POP
    \/ \E slots \in OneSlot \cup {<<NotASlot>>} : EvalCall_JL_GC_PUSH(slots)
    \/ \E R \in {"arr", NoRegion} : EvalCall_JL_GC_PUSHARGS(R)
    \/ EvalCall_jl_gc_push_arraylist(TRUE, "items")
    \/ \E L \in {R_x, R_arr0} : Bind(L, "b", NoGlobal)
    \/ Location(R_x, TRUE, "b")
    \/ \E e \in RootSubscripts : PostStmt_ArraySubscript(e.lhs, TRUE, e.d)

Spec == Init /\ [][Next]_vars

\* Calls in a function body: post-call processing of allocating, rooting,
\* temporarily rooting and boxing callees, around one root frame.
C_box == [PlainCallee EXCEPT !.name = "jl_box_int64",
                              !.params = <<CParm(FALSE, FALSE, {})>>]

C_box_u == [PlainCallee EXCEPT !.name = "jl_box_uint64",
                                !.params = <<CParm(FALSE, FALSE, {})>>]

SignedLiterals == {-513, -512, -511, 0, 5, 511, 512, 5000}

UnsignedLiterals == {0, 5, 1023, 1024, 5000}

BoxCalls ==
    {CallOf(C_box, <<ArgInt(n)>>, NoSym, "c") : n \in SignedLiterals}
    \cup {CallOf(C_box_u, <<ArgInt(n)>>, NoSym, "c") : n \in UnsignedLiterals}

BodyCalls ==
    {CallOf(C_alloc, <<>>, NoSym, "c")}
    \cup {CallOf(C_safe, <<ArgSym("a")>>, NoSym, "c")}
    \cup {CallOf(C_notsafe, <<ArgSym("a")>>, NoSym, NoSym)}
    \cup {CallOf(C_temp, <<ArgSym("b")>>, NoSym, NoSym)}
    \cup {CallOf(C_temp2, <<ArgSym("b"), ArgSym("c")>>, NoSym, NoSym)}
    \cup {CallOf(C_rooting, <<ArgSym("a"), ArgSym("b")>>, NoSym, NoSym)}
    \cup {CallOf(C_prop, <<ArgSym("a")>>, NoSym, "c")}
    \cup {CallOf(C_globroot, <<>>, NoSym, "c")}

\* Calls whose return value is a symbol the caller already knows (an inlined
\* callee that returns one of the caller's values).
KnownResultCalls ==
    {CallOf(c, <<>>, r, NoSym) : c \in {C_alloc, C_globroot}, r \in {"b", "c"}}
    \cup {CallOf(C_prop, <<ArgSym("a")>>, "b", NoSym)}

Calls == BodyCalls \cup BoxCalls \cup KnownResultCalls

NextCalls ==
    \/ BeginFunction(F_plain, <<NoSym, NoSym>>)
    \/ EndFunction(NoRet)
    \/ \E slots \in OneSlot : EvalCall_JL_GC_PUSH(slots)
    \/ EvalCall_JL_GC_POP
    \/ \E call \in Calls : PostCall(call)
    \/ \E s \in {"b", "c"} : Bind(R_x, s, NoGlobal)
    \/ \E s \in {"b", "c"} : Location(R_x, TRUE, s)
    \/ EvalCall_JL_GC_PROMISE_ROOTED("b")
    \/ \E s \in {"b", "c"} : PostStmt_CStyleCast(TRUE, s)
    \/ PostStmt_Deref(D_unknownParent)
    \/ Location(R_bfld, TRUE, NoSym)

SpecCalls == Init /\ [][NextCalls]_vars

\* Function entry and exit with inlining, the GC and safepoint switches and
\* one root frame.
C_lock == [PlainCallee EXCEPT !.name = "uv_mutex_lock", !.resultTracked = FALSE,
                               !.params = <<>>]

C_unlock == [PlainCallee EXCEPT !.name = "uv_mutex_unlock", !.resultTracked = FALSE,
                                 !.params = <<>>]

C_nsenter == [PlainCallee EXCEPT !.name = "jl_lock_frame", !.nsEnter = TRUE,
                                  !.annNotSafepoint = TRUE,
                                  !.resultTracked = FALSE, !.params = <<>>]

C_nsleave == [PlainCallee EXCEPT !.name = "jl_unlock_frame", !.nsLeave = TRUE,
                                  !.annNotSafepoint = TRUE,
                                  !.resultTracked = FALSE, !.params = <<>>]

\* The symbols a call passes to FD when FD is entered as an inlined callee.
ArgsOf(FD) == [i \in 1..Len(FD.params) |-> FD.params[i].sym]

\* The functions entered as inlined callees: one of each combination of the
\* annotations the switches depend on.
InlinedFuncs == {F_plain, F_ns, F_gcdis, F_enter, F_leave}

NextFlags ==
    \/ \E FD \in AllFuncs : Stack = <<>> /\ BeginFunction(FD, ArgsOf(FD))
    \/ \E FD \in InlinedFuncs : Stack # <<>> /\ BeginFunction(FD, ArgsOf(FD))
    \/ EndFunction(NoRet)
    \/ \E arg \in {"0", "1"} : EvalCall_jl_gc_enable(arg)
    \/ \E c \in {C_lock, C_nsenter} : EvalCall_lock(c)
    \/ \E c \in {C_unlock, C_nsleave} : PreCall(CallOf(c, <<>>, NoSym, NoSym))
    \/ \E slots \in OneSlot : EvalCall_JL_GC_PUSH(slots)
    \/ EvalCall_JL_GC_POP

SpecFlags == Init /\ [][NextFlags]_vars

\* Uses of values in a function body: pre-calls with arguments, accesses
\* through a value, returns, around safepoints and the GC and safepoint
\* switches.
C_noreturn == [PlainCallee EXCEPT !.name = "jl_error", !.noReturn = TRUE,
                                   !.resultTracked = FALSE]

C_yield == [PlainCallee EXCEPT !.name = "jl_yield", !.resultTracked = FALSE,
                                !.params = <<>>]

UseCallees == {C_safe, C_notsafe, C_temp, C_noreturn}

UseCalls ==
    {CallOf(c, <<ArgSym(s)>>, NoSym, NoSym) : c \in UseCallees, s \in Syms}

UseRets ==
    {NoRet, [tracked |-> FALSE, sym |-> "b"]}
    \cup {[tracked |-> TRUE, sym |-> s] : s \in Syms}

UsePostCalls ==
    {CallOf(C_alloc, <<>>, NoSym, "c"),
     CallOf(C_yield, <<>>, NoSym, NoSym),
     CallOf(C_rooting, <<ArgSym("a"), ArgSym("b")>>, NoSym, NoSym)}

NextUse ==
    \/ BeginFunction(F_plain, <<NoSym, NoSym>>)
    \/ BeginFunction(F_gcdis, <<>>)
    \/ \E ret \in UseRets : EndFunction(ret)
    \/ \E arg \in {"0", "1"} : EvalCall_jl_gc_enable(arg)
    \/ EvalCall_lock(C_lock)
    \/ \E call \in UseCalls \cup {CallOf(C_unlock, <<>>, NoSym, NoSym)} : PreCall(call)
    \/ \E call \in UsePostCalls : PostCall(call)
    \/ \E IsLoad \in BOOLEAN : Location(R_bfld, IsLoad, NoSym)
    \/ PostStmt_Deref(D_unknownParent)

SpecUse == Init /\ [][NextUse]_vars

\* Deriving expressions in a function body: dereferences, member accesses,
\* subscripts and casts, around a safepoint, a root array and a rooted field.
\* *a: a dereference of the rooted parameter a whose result location holds
\* no symbol yet (the symbol c is conjured for it), and the same expression
\* once c is bound to that location.
D_derefA == Deriv(FALSE, TRUE, TRUE, TRUE, NoSym, "c", "a", "other", FALSE, NoGlobal, "")

D_derefA_bound == [D_derefA EXCEPT !.loaded = "c", !.conj = NoSym]

\* a->fld where a is the storage of a parameter annotated maybe unrooted.
D_paramField == Deriv(FALSE, TRUE, TRUE, TRUE, "c", NoSym, "a", "param", TRUE, NoGlobal, "")

\* A member of the globally rooted global gr.
D_globalField == Deriv(FALSE, TRUE, TRUE, TRUE, "c", NoSym, NoSym, "global", FALSE, G_root, "")

\* An element of a globally rooted type.
D_globRootElement == Deriv(TRUE, TRUE, TRUE, TRUE, "c", NoSym, "b", "other", FALSE, NoGlobal, "")

DerefExprs == {D_derefA, D_derefA_bound, D_field("c", "b"), D_unknownParent}

MemberExprs == {[region |-> R_fld, d |-> D_paramField],
                [region |-> R_bfld, d |-> D_globalField]}

SubscriptExprs == {[lhs |-> R_arr0, d |-> D_field("c", "b")],
                   [lhs |-> R_items0, d |-> D_globRootElement]}

CastExprs == {"b", "c"}

FieldSlot == <<[region |-> "fld", sym |-> NoSym]>>

NextDeriv ==
    \/ BeginFunction(F_plain, <<NoSym, NoSym>>)
    \/ EndFunction(NoRet)
    \/ PostCall(CallOf(C_yield, <<>>, NoSym, NoSym))
    \/ EvalCall_JL_GC_PUSHARGS("arr")
    \/ EvalCall_JL_GC_PUSH(FieldSlot)
    \/ EvalCall_JL_GC_POP
    \/ \E d \in DerefExprs : PostStmt_Deref(d)
    \/ \E m \in MemberExprs : PostStmt_Member(m.region, TRUE, m.d)
    \/ \E e \in SubscriptExprs : PostStmt_ArraySubscript(e.lhs, TRUE, e.d)
    \/ \E s \in CastExprs : PostStmt_CStyleCast(TRUE, s)

SpecDeriv == Init /\ [][NextDeriv]_vars

\* Root frames around values in every state: pushes of one and two slots,
\* root arrays, pops, an allocation, a safepoint and an untracked value.
FrameSlotLists ==
    {<<[region |-> "x", sym |-> s]>> : s \in {"b", "c", NoSym}}
    \cup {<<[region |-> "x", sym |-> s], [region |-> "y", sym |-> t]>> :
            s \in {"a", "b"}, t \in {"b", "c"}}

NextFrames ==
    \/ BeginFunction(F_plain, <<NoSym, NoSym>>)
    \/ EndFunction(NoRet)
    \/ \E call \in {CallOf(C_alloc, <<>>, NoSym, "c"), CallOf(C_yield, <<>>, NoSym, NoSym)} :
          PostCall(call)
    \/ PostStmt_Deref(D_unknownParent)
    \/ \E slots \in FrameSlotLists \cup {<<[region |-> "x", sym |-> "b"], NotASlot>>} :
          EvalCall_JL_GC_PUSH(slots)
    \/ EvalCall_JL_GC_PUSHARGS("arr")
    \/ EvalCall_jl_gc_push_arraylist(TRUE, "items")
    \/ EvalCall_JL_GC_POP

SpecFrames == Init /\ [][NextFrames]_vars

\* Results of calls: the post-call of callees of every result classification,
\* whose result is a fresh symbol or a symbol that already denotes a value
\* (an inlined callee that returns a value the caller knows).  The argument d
\* is a field of the object a points to, and has no state of its own.
C_typeroot == [PlainCallee EXCEPT !.name = "jl_symbol_n", !.resultGlobRoot = TRUE,
                                  !.params = <<>>]

C_getter == [PlainCallee EXCEPT !.name = "jl_get_field", !.annNotSafepoint = TRUE]

C_rootingRes == [C_rooting EXCEPT !.name = "jl_set_field", !.resultTracked = TRUE]

C_fptr == [PlainCallee EXCEPT !.name = "", !.hasDecl = FALSE, !.isFunction = FALSE]

C_globprop == [C_prop EXCEPT !.name = "jl_sym_of", !.globallyRooted = TRUE]

ResultSyms == {[ret |-> NoSym, conj |-> "c"], [ret |-> "b", conj |-> NoSym],
               [ret |-> "c", conj |-> NoSym]}

ResultCalls ==
    {CallOf(c, <<>>, r.ret, r.conj) : c \in {C_alloc, C_globroot, C_typeroot},
                                      r \in ResultSyms}
    \cup {CallOf(c, <<ArgSym(s)>>, r.ret, r.conj) :
            c \in {C_safe, C_getter, C_prop, C_globprop, C_fptr}, s \in {"a", "b"},
            r \in ResultSyms}
    \cup {CallOf(C_rootingRes, <<ArgSym(s), ArgSym("b")>>, r.ret, r.conj) :
            s \in {"a", "c", "d"}, r \in ResultSyms}
    \cup {CallOf(C_prop, <<ArgSym("d")>>, r.ret, r.conj) : r \in ResultSyms}
    \cup {CallOf(c, <<ArgInt(n)>>, r.ret, r.conj) :
            c \in {C_box}, n \in {5, 5000}, r \in ResultSyms}

NextResult ==
    \/ BeginFunction(F_plain, <<NoSym, NoSym>>)
    \/ EndFunction(NoRet)
    \/ \E call \in ResultCalls : PostCall(call)
    \/ \E arg \in {"0", "1"} : EvalCall_jl_gc_enable(arg)
    \/ \E slots \in OneSlot : EvalCall_JL_GC_PUSH(slots)
    \/ EvalCall_JL_GC_POP
    \/ PostStmt_Deref(D_unknownParent)

SpecResult == Init /\ [][NextResult]_vars

\* Lock regions over every recognised lock and unlock name: callees declared
\* in a user header or in a system header, and the event loop uv_run.
LockNames ==
    {"uv_mutex_lock", "uv_mutex_trylock", "pthread_mutex_lock",
     "pthread_mutex_trylock", "__gthread_mutex_lock", "__gthread_mutex_trylock",
     "__gthread_recursive_mutex_lock", "__gthread_recursive_mutex_trylock",
     "pthread_spin_lock", "pthread_spin_trylock", "uv_rwlock_rdlock",
     "uv_rwlock_tryrdlock", "uv_rwlock_wrlock", "uv_rwlock_trywrlock"}

UnlockNames ==
    {"uv_mutex_unlock", "pthread_mutex_unlock", "__gthread_mutex_unlock",
     "__gthread_recursive_mutex_unlock", "pthread_spin_unlock",
     "uv_rwlock_rdunlock", "uv_rwlock_wrunlock"}

LockCallee(name, inSystemHeader) ==
    [PlainCallee EXCEPT !.name = name, !.inSystemHeader = inSystemHeader,
                        !.resultTracked = FALSE, !.params = <<>>]

LockCallees == {LockCallee(n, h) : n \in LockNames, h \in BOOLEAN}

UnlockCallees == {LockCallee(n, h) : n \in UnlockNames, h \in BOOLEAN}

C_uv_run == LockCallee("uv_run", FALSE)

C_uv_run_ns == [C_uv_run EXCEPT !.annNotSafepoint = TRUE]

\* The constructor of a lock guard annotated julia_notsafepoint_enter: its
\* origin expression is a CXXConstructExpr.
C_guard == [C_nsenter EXCEPT !.name = "guard", !.originIsCallExpr = FALSE]

NextLocks ==
    \/ \E FD \in {F_plain, F_ns} : BeginFunction(FD, ArgsOf(FD))
    \/ EndFunction(NoRet)
    \/ \E c \in LockCallees \cup {C_guard} : EvalCall_lock(c)
    \/ \E c \in LockCallees \cup UnlockCallees \cup {C_uv_run, C_uv_run_ns} :
          PreCall(CallOf(c, <<>>, NoSym, NoSym))

SpecLocks == Init /\ [][NextLocks]_vars

\* Derivations from parents in every state: a parent with no symbol, with a
\* symbol without state, rooted, allocated or possibly freed; a parent that is
\* a parameter's storage or that walks back to a global; results of tracked
\* and of untracked type.  The only parameter of k is a; b is the value the
\* globals hold.
F_one == Func("k", FALSE, "gc.c", FALSE, FALSE, FALSE,
              <<Parm(TRUE, FALSE, FALSE, FALSE, "a")>>)

G_untyped == Global("g", FALSE, FALSE, "b")

\* e = *p, e = p->f: the parent denotes the symbol OldSym (or none), the
\* result location holds c.
PlainDerivs ==
    {Deriv(FALSE, rt, pt, TRUE, "c", NoSym, old, "other", FALSE, NoGlobal, "") :
       rt \in BOOLEAN, pt \in BOOLEAN, old \in {"a", "b", NoSym}}

\* The same with a result location that holds no symbol yet.
FreshDerivs ==
    {Deriv(FALSE, rt, TRUE, TRUE, NoSym, "c", old, "other", FALSE, NoGlobal, "") :
       rt \in BOOLEAN, old \in {"a", "b", NoSym}}

\* gp->f: the parent walks back to a global that holds b.
GlobalDerivs ==
    {Deriv(FALSE, rt, TRUE, TRUE, "c", NoSym, "b", "global", FALSE, G, "") :
       rt \in BOOLEAN, G \in {G_plain, G_root, G_untyped}}

\* s.f: the parent is the storage of a parameter.
ParamDerivs ==
    {Deriv(FALSE, rt, TRUE, TRUE, "c", NoSym, NoSym, "param", mu, NoGlobal, "") :
       rt \in BOOLEAN, mu \in BOOLEAN}

\* g.f->h, gp->f.h: the parent is a field of the global, or of the object
\* the global's value points to.
GlobalFieldDerivs ==
    {Deriv(FALSE, rt, TRUE, TRUE, "c", NoSym, old, "global", FALSE, G, ".f") :
       rt \in BOOLEAN, old \in {"b", NoSym}, G \in {G_plain, G_root}}

\* m->bindings: an arraylist_t of a jl_module_t, the case the code keeps
\* tracked although the result is of no tracked type.
ModuleListDerivs ==
    {[Deriv(FALSE, FALSE, TRUE, TRUE, "c", NoSym, old, "other", FALSE, NoGlobal, "")
        EXCEPT !.carveOut = TRUE] : old \in {"a", "b", NoSym}}

\* Deriving expressions whose value is no location, or is unknown.
ValuelessDerivs ==
    {[Deriv(FALSE, TRUE, TRUE, TRUE, NoSym, "c", "b", "other", FALSE, NoGlobal, "")
        EXCEPT !.isLoc = FALSE],
     [Deriv(FALSE, TRUE, TRUE, TRUE, NoSym, "c", "b", "other", FALSE, NoGlobal, "")
        EXCEPT !.isLoc = FALSE, !.isUnknown = TRUE]}

ParentDerivs ==
    PlainDerivs \cup FreshDerivs \cup GlobalDerivs \cup ParamDerivs
    \cup GlobalFieldDerivs \cup ModuleListDerivs \cup ValuelessDerivs

NextParents ==
    \/ BeginFunction(F_one, <<NoSym>>)
    \/ EndFunction(NoRet)
    \/ PostCall(CallOf(C_yield, <<>>, NoSym, NoSym))
    \/ \E slots \in OneSlot : EvalCall_JL_GC_PUSH(slots)
    \/ EvalCall_JL_GC_POP
    \/ Location(R_g, TRUE, "b")
    \/ \E d \in ParentDerivs : PostStmt_Deref(d)

SpecParents == Init /\ [][NextParents]_vars

\* Root slots at two depths around values in every state: pushes of the slots
\* x and y, a root array, pushes of something that is no region, stores into
\* the slots and loads from them, pops, an allocation, a safepoint and an
\* untracked value.  x[0] is an element of the plain slot x.
R_x0 == Reg("x[0]", TRUE, "x", NoGlobal, NoSym, FALSE)

SlotPushes ==
    {<<[region |-> r, sym |-> s]>> : r \in {"x", "y"}, s \in {"b", "c", NoSym}}
    \cup {<<NotASlot>>}
    \cup {<<[region |-> "x", sym |-> s], NotASlot>> : s \in {"b", "c"}}

NextSlots ==
    \/ BeginFunction(F_plain, <<NoSym, NoSym>>)
    \/ EndFunction(NoRet)
    \/ \E call \in {CallOf(C_alloc, <<>>, NoSym, "c"), CallOf(C_yield, <<>>, NoSym, NoSym)} :
          PostCall(call)
    \/ PostStmt_Deref(D_unknownParent)
    \/ \E slots \in SlotPushes : EvalCall_JL_GC_PUSH(slots)
    \/ \E R \in {"arr", NoRegion} : EvalCall_JL_GC_PUSHARGS(R)
    \/ EvalCall_JL_GC_POP
    \/ \E L \in {R_x, R_y, R_arr0, R_x0}, s \in Syms : Bind(L, s, NoGlobal)
    \/ \E L \in {R_x, R_y}, s \in {"b", "c"} : Location(L, TRUE, s)

SpecSlots == Init /\ [][NextSlots]_vars

\* Inlined calls: a function is entered at the top frame and calls, with
\* arguments that denote symbols of the caller in every state, a callee that
\* is inlined.  lead has a parameter of untracked type before its two tracked
\* parameters; d originates from a field of the object a points to.
F_lead == Func("lead", FALSE, "gc.c", FALSE, FALSE, FALSE,
               <<Parm(FALSE, FALSE, FALSE, FALSE, NoSym),
                 Parm(TRUE, FALSE, FALSE, FALSE, "b"),
                 Parm(TRUE, FALSE, FALSE, FALSE, "c")>>)

\* Pairs of distinct argument symbols.
ArgPairs == {p \in SymOrNone \X SymOrNone : p[1] # NoSym /\ p[1] # p[2]}

InlinedCalls ==
    {[fd |-> F_plain, args |-> <<p[1], p[2]>>] : p \in ArgPairs}
    \cup {[fd |-> FD, args |-> <<NoSym, p[1], p[2]>>] :
            FD \in {F_lead, F_mixed}, p \in {q \in ArgPairs : q[2] # NoSym}}
    \cup {[fd |-> F_ns, args |-> <<s>>] : s \in Syms}

NextInline ==
    \/ \E FD \in {F_plain, F_lead} : Stack = <<>> /\ BeginFunction(FD, ArgsOf(FD))
    \/ \E ic \in InlinedCalls : Stack # <<>> /\ BeginFunction(ic.fd, ic.args)
    \/ EndFunction(NoRet)
    \/ \E call \in {CallOf(C_alloc, <<>>, NoSym, "c"), CallOf(C_yield, <<>>, NoSym, NoSym)} :
          PostCall(call)
    \/ \E slots \in OneSlot : EvalCall_JL_GC_PUSH(slots)
    \/ EvalCall_JL_GC_POP

SpecInline == Init /\ [][NextInline]_vars

\* Permanent roots: values rooted for good by a promise, by the callee's
\* annotation or by the trust in the arguments of the top frame, and the
\* permanent root-map entries of a julia_require_rooted_slot parameter and of
\* a globally rooted global, around pushes, pops and safepoints.
PermanentPushes ==
    {<<[region |-> "x", sym |-> s]>> : s \in {"b", "c"}}
    \cup {<<[region |-> "x", sym |-> "b"], [region |-> "y", sym |-> "c"]>>}

NextPermanent ==
    \/ \E FD \in {F_plain, F_slot} : BeginFunction(FD, ArgsOf(FD))
    \/ EndFunction(NoRet)
    \/ \E call \in {CallOf(C_alloc, <<>>, NoSym, "c"), CallOf(C_yield, <<>>, NoSym, NoSym),
                    CallOf(C_globroot, <<>>, NoSym, "c")} : PostCall(call)
    \/ \E s \in {"b", "c"} : EvalCall_JL_GC_PROMISE_ROOTED(s)
    \/ \E slots \in PermanentPushes : EvalCall_JL_GC_PUSH(slots)
    \/ EvalCall_JL_GC_POP
    \/ Location(R_gr, TRUE, "b")

SpecPermanent == Init /\ [][NextPermanent]_vars

\* Function exits with and without a returned value: functions of every
\* annotation the exit looks at, entered at the top frame or inlined, a lock
\* and the end of a lock region, the GC switch, a safepoint that frees the
\* unrooted parameter b, and one root frame.  jl_unlock_value ends a lock
\* region and takes a value.
C_leaveArg == [C_nsleave EXCEPT !.name = "jl_unlock_value",
                                !.params = <<CParm(TRUE, FALSE, {})>>]

ExitFuncs == {F_plain, F_ns, F_enter, F_leave}

NextExit ==
    \/ \E FD \in ExitFuncs : BeginFunction(FD, ArgsOf(FD))
    \/ \E ret \in Rets : EndFunction(ret)
    \/ \E arg \in {"0", "1"} : EvalCall_jl_gc_enable(arg)
    \/ EvalCall_lock(C_lock)
    \/ PreCall(CallOf(C_leaveArg, <<ArgSym("b")>>, NoSym, NoSym))
    \/ \E call \in {CallOf(C_yield, <<>>, NoSym, NoSym),
                    CallOf(C_leaveArg, <<ArgSym("b")>>, NoSym, NoSym)} : PostCall(call)
    \/ \E slots \in OneSlot : EvalCall_JL_GC_PUSH(slots)
    \/ EvalCall_JL_GC_POP

SpecExit == Init /\ [][NextExit]_vars

\* Paths with GC disabled: a function annotated julia_gc_disabled and a plain
\* one, the GC switch, inlined callees whose arguments denote values of the
\* caller, and the post-calls of allocating, rooting, propagating and
\* globally rooted callees whose result is a fresh symbol or one the caller
\* already knows.  jl_call is variadic.
C_variadic == [PlainCallee EXCEPT !.name = "jl_call", !.resultTracked = FALSE]

DisabledCalls ==
    {CallOf(C_alloc, <<>>, NoSym, "c"),
     CallOf(C_yield, <<>>, NoSym, NoSym),
     CallOf(C_rooting, <<ArgSym("a"), ArgSym("b")>>, NoSym, NoSym),
     CallOf(C_variadic, <<ArgSym("a"), ArgSym("b")>>, NoSym, NoSym)}
    \cup {CallOf(c, <<>>, "b", NoSym) : c \in {C_alloc, C_globroot}}
    \cup {CallOf(C_prop, <<ArgSym(s)>>, "c", NoSym) : s \in {"a", "b"}}

DisabledInlined ==
    {[fd |-> F_plain, args |-> <<"d", "b">>],
     [fd |-> F_lead, args |-> <<NoSym, "b", "c">>]}

NextDisabled ==
    \/ \E FD \in {F_plain, F_gcdis} : Stack = <<>> /\ BeginFunction(FD, ArgsOf(FD))
    \/ \E ic \in DisabledInlined : Stack # <<>> /\ BeginFunction(ic.fd, ic.args)
    \/ EndFunction(NoRet)
    \/ \E arg \in {"0", "1"} : EvalCall_jl_gc_enable(arg)
    \/ \E call \in DisabledCalls : PostCall(call)

SpecDisabled == Init /\ [][NextDisabled]_vars

-----------------------------------------------------------------------------
(* Properties of the root frames (specification Spec). *)

\* C1: rooting soundness across Pop.  When JL_GC_POP removes the root frame at
\* depth d (GCDepth goes from d + 1 to d), no value is left in state Rooted
\* with a root depth of d or more: every value rooted through that frame, by
\* a pushed slot, a root array element, a load or a store, is demoted.
C1_PopUnrootsFrame ==
    [][(last'.op = "JL_GC_POP" /\ GCDepth > 0 /\ GCDepth' = GCDepth - 1)
         => \A s \in Syms :
               ~(isRooted(GCValueMap'[s]) /\ GCValueMap'[s].RootDepth >= GCDepth')]_vars

\* C2: in every reachable state every Rooted value has root depth -1 or a
\* root depth that does not exceed GCDepth.
C2_RootDepthBounded ==
    \A s \in Syms :
        isRooted(GCValueMap[s])
            => (GCValueMap[s].RootDepth = -1 \/ GCValueMap[s].RootDepth <= GCDepth)

\* C5: a JL_GC_POP executed when GCDepth is 0 reports "JL_GC_POP without
\* corresponding push" and leaves GCDepth, GCRootMap and GCValueMap as they
\* were; GCDepth never goes below 0.
C5_PopUnderflow ==
    [][/\ GCDepth' >= 0
       /\ (last'.op = "JL_GC_POP" /\ GCDepth = 0)
            => /\ Report("JL_GC_POP without corresponding push", NoSym) \in reports'
               /\ GCDepth' = GCDepth
               /\ GCRootMap' = GCRootMap
               /\ GCValueMap' = GCValueMap]_vars

\* C5 happens: a pop was executed with no frame pushed while an unrooted value
\* was tracked, and it was reported.
C5_Witness ==
    /\ last.op = "JL_GC_POP"
    /\ GCDepth = 0
    /\ halted
    /\ Report("JL_GC_POP without corresponding push", NoSym) \in reports
    /\ \E s \in Syms : isJustAllocated(GCValueMap[s])

-----------------------------------------------------------------------------
(* Properties of post-call processing (specification SpecCalls). *)

\* The symbols a call passes for parameters flagged julia_temporarily_roots.
TemporarilyRootedArgs(call) ==
    {call.args[i].sym : i \in {j \in 1..Len(call.args) :
                                  call.callee.params[j].temporarilyRoots}}

\* Whether the callee has a parameter flagged julia_rooted_argument.
HasRootedArgument(callee) ==
    \E i \in 1..Len(callee.params) : callee.params[i].rootedArg

\* The symbol that denotes the call's result after the post-call.
ResultSym(call) == IF call.ret # NoSym THEN call.ret ELSE call.conj

\* C3: safepoint kill.  After the post-call of a safepoint with GC enabled,
\* every value that was Allocated before it is PotentiallyFreed, except the
\* call's return value and the arguments of parameters flagged temporarily
\* roots: each of those flagged arguments stays Allocated, not only one of
\* them.  (Stated for callees without a rooted-argument parameter, whose
\* argument rooting runs before the kill.)
C3_SafepointKill ==
    [][\A call \in Calls :
          (/\ PostCall(call)
           /\ isSafepoint(call.callee)
           /\ gcEnabledHere(GCDisabledAt)
           /\ ~HasRootedArgument(call.callee))
          => \A s \in Syms :
                (isJustAllocated(GCValueMap[s]) /\ s # ResultSym(call))
                => IF s \in TemporarilyRootedArgs(call)
                   THEN isJustAllocated(GCValueMap'[s])
                   ELSE isPotentiallyFreed(GCValueMap'[s])]_vars

\* C4: no silent resurrection.  A value that is PotentiallyFreed becomes
\* Rooted only by a JL_GC_PUSH of a slot, a store into a registered root
\* slot, or JL_GC_PROMISE_ROOTED; no load, cast, derivation, argument
\* rooting, result classification or parameter propagation does it.
C4_NoResurrection ==
    [][\A s \in Syms :
          (isPotentiallyFreed(GCValueMap[s]) /\ isRooted(GCValueMap'[s]))
          => \/ last'.op = "JL_GC_PUSH"
             \/ last'.op = "JL_GC_PROMISE_ROOTED" /\ last'.tag = s
             \/ last'.op = "Bind" /\ hasRoot(GCRootMap[last'.tag])]_vars

\* The literals the claimed boxing fast path covers.
InClaimedBoxRange(name, n) ==
    IF starts_with_jl_box_u(name) THEN 0 <= n /\ n <= 1023
    ELSE -512 <= n /\ n <= 511

\* C8: boxing fast path.  The result of a small-integer boxing call with
\* the literal argument n is Rooted(null, -1) exactly when n is in
\* [-512, 511] (signed boxing) or [0, 1023] (unsigned boxing), both ends
\* included, and Allocated for every other literal.
C8_BoxingRange ==
    [][\A call \in BoxCalls :
          PostCall(call)
          => IF InClaimedBoxRange(call.callee.name, call.args[1].int)
             THEN GCValueMap'[ResultSym(call)] = getRooted(NoRegion, -1)
             ELSE GCValueMap'[ResultSym(call)] = getAllocated]_vars

\* The symbol argument rooting may give a new state: the argument of the
\* last parameter flagged julia_rooted_argument.
RootedArgumentSym(call) == lastRootedArg(call.callee.params, call.args, 1, NoSym)

\* Whether a value state is one the safepoint kill must not touch.
SurvivesKill(vs) == isRooted(vs) \/ isUntracked(vs) \/ isPotentiallyFreed(vs)

\* An access through the value b while b is Rooted raises no diagnostic.
UseOfRootedIsSilent ==
    (last' = Op("Location", "bfld") /\ isRooted(GCValueMap["b"])) => reports' = {}

\* C10 as stated: the post-call of a safepoint leaves every value that is
\* Rooted, Untracked or PotentiallyFreed unchanged, and leaves GCRootMap,
\* GCDepth, GCDisabledAt and SafepointDisabledAt unchanged; a later use of a
\* rooted value raises no diagnostic.
C10_AsStated ==
    [][/\ \A call \in Calls :
          (PostCall(call) /\ isSafepoint(call.callee))
          => /\ \A s \in Syms :
                    SurvivesKill(GCValueMap[s]) => GCValueMap'[s] = GCValueMap[s]
             /\ UNCHANGED <<GCRootMap, GCDepth, GCDisabledAt, SafepointDisabledAt>>
       /\ UseOfRootedIsSilent]_vars

\* The symbol result classification may give a new state: the call's own
\* return value, when the call's result is of a tracked type.
ClassifiedReturnSym(call) ==
    IF call.callee.resultTracked /\ call.callee.hasOriginExpr THEN call.ret ELSE NoSym

\* C10, amended: the post-call of a safepoint leaves every value that is
\* Rooted, Untracked or PotentiallyFreed unchanged, except the argument of a
\* rooted-argument parameter (to which argument rooting gives the state of
\* the rooting argument) and the call's own return value (to which result
\* classification gives a state), and leaves GCRootMap, GCDepth,
\* GCDisabledAt and SafepointDisabledAt unchanged; a value rooted by a
\* pushed slot that is neither of the two is still rooted by it after the
\* call, and a later use of a rooted value raises no diagnostic.
C10_RootedSurviveSafepoint ==
    [][/\ \A call \in Calls :
          (PostCall(call) /\ isSafepoint(call.callee))
          => /\ \A s \in Syms :
                    (/\ SurvivesKill(GCValueMap[s])
                     /\ s # RootedArgumentSym(call)
                     /\ s # ClassifiedReturnSym(call))
                    => GCValueMap'[s] = GCValueMap[s]
             /\ UNCHANGED <<GCRootMap, GCDepth, GCDisabledAt, SafepointDisabledAt>>
       /\ UseOfRootedIsSilent]_vars

\* C10 happens: after the post-call of the safepoint jl_apply in an open root
\* frame, b is rooted by the pushed slot x while the call's result is a
\* fresh unrooted value and GC is enabled.
C10_Witness ==
    /\ last = Op("PostCall", "jl_apply")
    /\ GCDepth = 1
    /\ gcEnabledHere(GCDisabledAt)
    /\ GCValueMap["b"] = getRooted("x", 0)
    /\ hasRoot(GCRootMap["x"])
    /\ isJustAllocated(GCValueMap["c"])

-----------------------------------------------------------------------------
(* Properties of function entry and exit and of the GC and safepoint        *)
(* switches (specification SpecFlags).                                      *)

NonPopped == Report("Non-popped GC frame present at end of function", NoSym)

\* C6 as stated: the exit of a function in which an unmatched push occurred
\* (GCDepth is not 0 and exceeds its value at the function's entry) reports
\* "Non-popped GC frame present at end of function", in the top frame and in
\* an inlined callee alike, and an exit with GCDepth 0 does not report it.
C6_AsStated ==
    [][last'.op = "EndFunction"
         => /\ (GCDepth # 0 /\ GCDepth > Stack[Len(Stack)].depth0)
                  => NonPopped \in reports'
            /\ GCDepth = 0 => NonPopped \notin reports']_vars

\* C6, amended: a function exit reports "Non-popped GC frame present at end
\* of function" only when it is the exit of the top frame and GCDepth is not
\* 0, and such an exit reports it exactly when it has reported no other
\* diagnostic before; the exit of an inlined callee never reports it.
C6_NonPoppedAtTopExit ==
    [][last'.op = "EndFunction"
         => /\ NonPopped \in reports' => (Len(Stack) = 1 /\ GCDepth # 0)
            /\ (Len(Stack) = 1 /\ GCDepth # 0)
                  => (NonPopped \in reports' <=> ~\E r \in reports' : r # NonPopped)]_vars

\* C6 happens: an inlined callee that pushed a frame and did not pop it has
\* exited into the top frame, and nothing was reported.
C6_Witness ==
    /\ last.op = "EndFunction"
    /\ Len(Stack) = 1
    /\ GCDepth = 1
    /\ hasRoot(GCRootMap["x"])
    /\ Stack[1].depth0 = 0
    /\ reports = {}

\* The exit of the function at the height a switch was set for resets it.
ExitResets ==
    last'.op = "EndFunction"
        => /\ GCDisabledAt = Len(Stack) => GCDisabledAt' = UNSIGNED_M1
           /\ SafepointDisabledAt = Len(Stack) => SafepointDisabledAt' = UNSIGNED_M1

\* The step is the exit of the function at height h, resetting to NONE.
ExitAt(h, after) ==
    last'.op = "EndFunction" /\ Len(Stack) = h /\ after = UNSIGNED_M1

\* C7 as stated: once GCDisabledAt (SafepointDisabledAt) is set to a stack
\* height h it keeps that value until the function at height h exits: no
\* jl_gc_enable, lock, unlock, nested entry or exit changes it, and that
\* exit resets it to NONE.
C7_AsStated ==
    [][/\ (GCDisabledAt >= 1 /\ GCDisabledAt' # GCDisabledAt)
            => ExitAt(GCDisabledAt, GCDisabledAt')
       /\ (SafepointDisabledAt >= 1 /\ SafepointDisabledAt' # SafepointDisabledAt)
            => ExitAt(SafepointDisabledAt, SafepointDisabledAt')
       /\ ExitResets]_vars

\* C7, amended: GCDisabledAt set to a stack height h keeps that value until
\* the function at height h exits or jl_gc_enable is called (at any height);
\* SafepointDisabledAt set to h keeps that value until the function at
\* height h exits or an unlock / notsafepoint-leave call is made at height h
\* with GC enabled in a function not annotated not-safepoint; lock, nested
\* entry and exit and unlock at another height change neither, the exit of
\* the function at height h resets both to NONE, and the value jl_gc_enable(0)
\* stores is changed by jl_gc_enable only.
C7_SwitchesKeptUntilExit ==
    [][/\ (GCDisabledAt >= 1 /\ GCDisabledAt' # GCDisabledAt)
            => \/ ExitAt(GCDisabledAt, GCDisabledAt')
               \/ last'.op = "jl_gc_enable"
       /\ (SafepointDisabledAt >= 1 /\ SafepointDisabledAt' # SafepointDisabledAt)
            => \/ ExitAt(SafepointDisabledAt, SafepointDisabledAt')
               \/ /\ last'.op = "PreCall"
                  /\ Len(Stack) = SafepointDisabledAt
                  /\ SafepointDisabledAt' = UNSIGNED_M1
                  /\ gcEnabledHere(GCDisabledAt)
                  /\ ~isFDAnnotatedNotSafepoint(CurFD)
       /\ (GCDisabledAt = UNSIGNED_M2 /\ GCDisabledAt' # GCDisabledAt)
            => last'.op = "jl_gc_enable"
       /\ ExitResets]_vars

\* C7 happens: GC and safepoints were disabled at height 1, and an unlock in
\* a nested frame at height 2 left both as they were.
C7_Witness ==
    /\ last = Op("PreCall", "uv_mutex_unlock")
    /\ Len(Stack) = 2
    /\ GCDisabledAt = 1
    /\ SafepointDisabledAt = 1

\* C9: at top-frame function entry a tracked parameter that holds a symbol
\* starts Allocated if the function is not a safepoint (annotated, or
\* inferred from its file) or the parameter is annotated maybe-unrooted, and
\* Rooted(null, -1) otherwise.
C9_EntryClassification ==
    [][\A FD \in AllFuncs :
          (last' = Op("BeginFunction", FD.name) /\ Stack = <<>>)
          => \A i \in 1..Len(FD.params) :
                LET P == FD.params[i] IN
                (P.tracked /\ ~P.requireRootedSlot /\ P.sym # NoSym)
                => GCValueMap'[P.sym] =
                       IF isFDAnnotatedNotSafepoint(FD) \/ P.maybeUnrooted
                       THEN getAllocated
                       ELSE getRooted(NoRegion, -1)]_vars

\* C9 happens: the safepoint function f was entered at the top frame; its
\* plain parameter a is Rooted(null, -1) and its maybe-unrooted parameter b
\* is Allocated.
C9_Witness ==
    /\ last = Op("BeginFunction", "f")
    /\ Len(Stack) = 1
    /\ GCValueMap["a"] = getRooted(NoRegion, -1)
    /\ GCValueMap["b"] = getAllocated

-----------------------------------------------------------------------------
(* Properties of the uses of values (specification SpecUse).                *)

ArgumentFreed(sym) == Report("Argument value may have been GCed", sym)

AccessFreed(sym) == Report("Trying to access value which may have been GCed", sym)

\* C11: use of a possibly collected value.  Whenever a value that is
\* PotentiallyFreed is passed as an argument of tracked type to a call
\* (safepoint or not, with or without a maybe-unrooted parameter), the
\* pre-call reports the use of that argument; whenever a location derived
\* from such a value is loaded from or stored to, the access is reported.
C11_UseOfFreedReported ==
    [][/\ \A call \in UseCalls :
             PreCall(call)
             => \A i \in 1..Len(call.args) :
                   (/\ call.args[i].tracked
                    /\ isPotentiallyFreed(GCValueMap[call.args[i].sym]))
                   => ArgumentFreed(call.args[i].sym) \in reports'
       /\ \A IsLoad \in BOOLEAN :
             (Location(R_bfld, IsLoad, NoSym) /\ isPotentiallyFreed(GCValueMap["b"]))
             => AccessFreed("b") \in reports']_vars


ReturnFreed(sym) == Report("Return value may have been GCed", sym)

\* C12: return of a possibly collected value.  At a function exit whose
\* return expression is of tracked type, the returned value is reported
\* exactly when GC is enabled and the value is PotentiallyFreed; returning an
\* Allocated, Rooted or Untracked value, or any value while GC is disabled,
\* reports nothing about it.
C12_ReturnOfFreed ==
    [][\A ret \in UseRets :
          (EndFunction(ret) /\ ret.tracked)
          => /\ ReturnFreed(ret.sym) \in reports'
                <=> (/\ gcEnabledHere(GCDisabledAt)
                     /\ isPotentiallyFreed(GCValueMap[ret.sym]))
             /\ \A r \in reports' : r.sym = ret.sym => r = ReturnFreed(ret.sym)]_vars

\* C12 happens: a function has returned the PotentiallyFreed value b with GC
\* enabled and the return was reported.
C12_Witness ==
    /\ last.op = "EndFunction"
    /\ isPotentiallyFreed(GCValueMap["b"])
    /\ reports = {ReturnFreed("b")}


MissingRoot(sym) ==
    Report("Passing non-rooted value as argument to function that may GC", sym)

\* Whether argument i of the call is an Allocated value of tracked type
\* passed to a safepoint through a parameter not annotated maybe unrooted.
UnrootedToSafepoint(call, i) ==
    /\ call.args[i].tracked
    /\ isJustAllocated(GCValueMap[call.args[i].sym])
    /\ isSafepoint(call.callee)
    /\ ~call.callee.params[i].maybeUnrooted

\* Whether the pre-call gets as far as examining its arguments: GC is enabled
\* and the call is not stopped as a safepoint reached with safepoints disabled.
ExaminesArguments(call) ==
    /\ gcEnabledHere(GCDisabledAt)
    /\ \/ safepointEnabledHere(SafepointDisabledAt)
       \/ ~isSafepoint(call.callee)
       \/ call.callee.noReturn

\* C13: missing root.  A pre-call that examines its arguments reports a
\* missing root for every argument that is Allocated, passed to a call
\* classified as a safepoint through a parameter not annotated maybe
\* unrooted; an argument that is Rooted or Untracked, or one passed to a
\* non-safepoint call, never raises it.
C13_MissingRootExactly ==
    [][\A call \in UseCalls :
          PreCall(call)
          => \A i \in 1..Len(call.args) :
                /\ (ExaminesArguments(call) /\ UnrootedToSafepoint(call, i))
                   => MissingRoot(call.args[i].sym) \in reports'
                /\ (\/ isRooted(GCValueMap[call.args[i].sym])
                    \/ isUntracked(GCValueMap[call.args[i].sym])
                    \/ ~isSafepoint(call.callee))
                   => MissingRoot(call.args[i].sym) \notin reports']_vars


SafepointViolation ==
    Report("Calling potential safepoint from function annotated JL_NOTSAFEPOINT", NoSym)

\* C14: safepoint violation.  Whenever the pre-call of a call classified as
\* a safepoint, to a function not marked no-return, is reached while
\* SafepointDisabledAt is set, the safepoint violation is reported, whether
\* GC is enabled or disabled; calls to no-return functions and non-safepoint
\* calls never raise it.
C14_SafepointViolation ==
    [][\A call \in UseCalls :
          PreCall(call)
          => /\ (/\ isSafepoint(call.callee)
                 /\ ~call.callee.noReturn
                 /\ ~safepointEnabledHere(SafepointDisabledAt))
                => SafepointViolation \in reports'
             /\ (call.callee.noReturn \/ ~isSafepoint(call.callee))
                => SafepointViolation \notin reports']_vars


-----------------------------------------------------------------------------
(* Properties of paths with GC disabled (specification SpecDisabled).       *)

\* GC is disabled from the start of the path: in every state inside the
\* analysed function.
DisabledFromStart == [](Len(Stack) >= 1 => ~gcEnabledHere(GCDisabledAt))

\* No value is PotentiallyFreed.
NothingFreed == \A s \in Syms : ~isPotentiallyFreed(GCValueMap[s])

\* C17 as stated: while GC is disabled, the post-call of a safepoint leaves
\* every Allocated value Allocated; and on a path where GC is disabled from
\* the start no value ever becomes PotentiallyFreed.
C17_AsStated ==
    /\ [][\A call \in DisabledCalls :
            (/\ PostCall(call)
             /\ isSafepoint(call.callee)
             /\ ~gcEnabledHere(GCDisabledAt))
            => \A s \in Syms :
                  isJustAllocated(GCValueMap[s]) => isJustAllocated(GCValueMap'[s])]_vars
    /\ (DisabledFromStart => []NothingFreed)

\* C17, amended: while GC is disabled, the post-call of a safepoint demotes
\* no value: every Allocated value is still Allocated afterwards, except the
\* argument of a rooted-argument parameter, to which argument rooting gives
\* the state of the rooting argument, and the call's own return value, to
\* which result classification gives a state; and on a path where GC is
\* disabled from the start no value ever becomes PotentiallyFreed.
C17_NoDemotionWhileGCDisabled ==
    /\ [][\A call \in DisabledCalls :
            (/\ PostCall(call)
             /\ isSafepoint(call.callee)
             /\ ~gcEnabledHere(GCDisabledAt))
            => \A s \in Syms :
                  (/\ isJustAllocated(GCValueMap[s])
                   /\ s # RootedArgumentSym(call)
                   /\ s # ClassifiedReturnSym(call))
                  => isJustAllocated(GCValueMap'[s])]_vars
    /\ (DisabledFromStart => []NothingFreed)

\* C17 happens: in a function annotated gc-disabled the safepoint jl_yield
\* has been called after an allocation; GC is still disabled and the
\* allocated value c is still Allocated.
C17_Witness ==
    /\ last = Op("PostCall", "jl_yield")
    /\ Stack[1].fd = F_gcdis
    /\ ~gcEnabledHere(GCDisabledAt)
    /\ isJustAllocated(GCValueMap["c"])

-----------------------------------------------------------------------------
(* Further properties of function exit (specification SpecExit).            *)

SafepointsLeftDisabled == Report("Safepoints disabled at end of function", NoSym)

\* C15 as stated: annotation contract at exit.  At the exit of the function
\* at stack height h with SafepointDisabledAt = h, "Safepoints disabled at
\* end of function" is reported exactly when the function is neither
\* annotated or inferred not-safepoint nor annotated notsafepoint-enter;
\* reported or not, SafepointDisabledAt is enabled again after that exit.
C15_AsStated ==
    [][\A ret \in Rets :
         (EndFunction(ret) /\ SafepointDisabledAt = getStackFrameHeight(Stack))
         => /\ SafepointsLeftDisabled \in reports'
               <=> (~isFDAnnotatedNotSafepoint(CurFD) /\ ~CurFD.nsEnter)
            /\ SafepointDisabledAt' = UNSIGNED_M1]_vars

\* C15, amended: annotation contract at exit.  At the exit of the function
\* at stack height h with SafepointDisabledAt = h, "Safepoints disabled at
\* end of function" is reported exactly when the function is neither
\* annotated or inferred not-safepoint nor annotated notsafepoint-enter and
\* the exit has not already reported "Return value may have been GCed" (a
\* callback emits only its first diagnostic); reported or not,
\* SafepointDisabledAt is enabled again after that exit.
C15_ExitWithSafepointsDisabled ==
    [][\A ret \in Rets :
         (EndFunction(ret) /\ SafepointDisabledAt = getStackFrameHeight(Stack))
         => /\ SafepointsLeftDisabled \in reports'
               <=> (/\ ~isFDAnnotatedNotSafepoint(CurFD)
                    /\ ~CurFD.nsEnter
                    /\ ReturnFreed(ret.sym) \notin reports')
            /\ SafepointDisabledAt' = UNSIGNED_M1]_vars

\* C15 happens: an inlined plain function that took a lock has exited with
\* safepoints still disabled at its height; the exit was reported and
\* safepoints are enabled again in the caller.
C15_Witness ==
    /\ last = Op("EndFunction", "f")
    /\ Len(Stack) = 1
    /\ SafepointsLeftDisabled \in reports
    /\ SafepointDisabledAt = UNSIGNED_M1
    /\ ~halted


-----------------------------------------------------------------------------
(* Properties of deriving expressions (specification SpecDeriv).            *)

\* Whether d2 describes the expression d1 at its next evaluation: the same
\* description, or the one in which the symbol conjured for the result at
\* the first evaluation is now held by the result location.
SameExpr(d1, d2) ==
    \/ d2 = d1
    \/ /\ d1.loaded = NoSym
       /\ d1.conj # NoSym
       /\ d2 = [d1 EXCEPT !.loaded = d1.conj, !.conj = NoSym]

\* C16: idempotence of re-derivation.  Applying the derivation rule (cast,
\* member, subscript or dereference) to the same result/parent pair a second
\* time, directly after the first, leaves the ValueState of the derived
\* value as the first application left it and changes nothing else in the
\* checker state.
C16_RederivationIdempotent ==
    [][/\ \A d1, d2 \in DerefExprs :
            (last = Op("Deref", d1.OldSym) /\ SameExpr(d1, d2) /\ PostStmt_Deref(d2))
            => UNCHANGED chk
       /\ \A m \in MemberExprs :
            (last = Op("Member", m.region.name) /\ PostStmt_Member(m.region, TRUE, m.d))
            => UNCHANGED chk
       /\ \A e \in SubscriptExprs :
            (last = Op("ArraySubscript", e.lhs.name)
               /\ PostStmt_ArraySubscript(e.lhs, TRUE, e.d))
            => UNCHANGED chk
       /\ \A s \in CastExprs :
            (last = Op("CStyleCast", s) /\ PostStmt_CStyleCast(TRUE, s))
            => UNCHANGED chk]_vars

\* C16 happens: the subscript arr[0] of a registered root array has just
\* been evaluated and rooted its value c by the element region, and nothing
\* ended the path, so the same subscript can be evaluated again.
C16_Witness ==
    /\ last = Op("ArraySubscript", "arr[0]")
    /\ isRootArray(GCRootMap["arr"])
    /\ isRootedBy(GCValueMap["c"], "arr[0]")
    /\ Running


-----------------------------------------------------------------------------
(* Properties of pushes and pops (specification SpecFrames).                *)

RootFreed(sym) == Report("Trying to root value which may have been GCed", sym)

\* The positions of the slots that hold the symbol s.
Holders(slots, s) == {i \in 1..Len(slots) : slots[i].sym = s}

\* The symbols held by some slot whose value is PotentiallyFreed.
FreedInSlots(slots) ==
    {s \in Syms : Holders(slots, s) # {} /\ isPotentiallyFreed(GCValueMap[s])}

\* The positions of the slots that hold a PotentiallyFreed value.
FreedSlots(slots) ==
    {i \in 1..Len(slots) : /\ slots[i].sym # NoSym
                           /\ isPotentiallyFreed(GCValueMap[slots[i].sym])}

\* The report of a push for the PotentiallyFreed values its slots hold: the
\* value of the first such slot is reported.
FirstRootFreed(slots) ==
    IF FreedSlots(slots) = {} THEN {}
    ELSE {RootFreed(slots[i].sym) :
            i \in {j \in FreedSlots(slots) : \A k \in FreedSlots(slots) : j <= k}}

\* What a push of the slots at depth g does to the depth, the root map and
\* the values that are not PotentiallyFreed: every slot is registered as
\* Root at depth g, a held value that has a state and is Allocated or
\* Untracked is Rooted by its slot at depth g, a value with no state, a value
\* already Rooted and a value held by no slot are left as they are, and the
\* depth is g + 1 whatever the number of slots.
PushRegistersAndPromotes(slots) ==
    /\ GCDepth' = GCDepth + 1
    /\ \A R \in Regions :
          GCRootMap'[R] = IF \E i \in 1..Len(slots) : slots[i].region = R
                          THEN getRoot(GCDepth) ELSE GCRootMap[R]
    /\ \A s \in Syms :
          IF isJustAllocated(GCValueMap[s]) \/ isUntracked(GCValueMap[s])
          THEN IF Holders(slots, s) = {} THEN GCValueMap'[s] = GCValueMap[s]
               ELSE \E i \in Holders(slots, s) :
                       GCValueMap'[s] = getRooted(slots[i].region, GCDepth)
          ELSE isPotentiallyFreed(GCValueMap[s]) \/ GCValueMap'[s] = GCValueMap[s]
    /\ UNCHANGED <<GCDisabledAt, SafepointDisabledAt>>

\* C18 as stated: a push of N slots registers and promotes as above, reports
\* every held value that is PotentiallyFreed and does not promote it.
C18_AsStated ==
    [][\A slots \in FrameSlotLists :
          EvalCall_JL_GC_PUSH(slots)
          => /\ PushRegistersAndPromotes(slots)
             /\ reports' = {RootFreed(s) : s \in FreedInSlots(slots)}
             /\ \A s \in Syms : isPotentiallyFreed(GCValueMap[s])
                                => GCValueMap'[s] = GCValueMap[s]]_vars

\* C18, amended: a push of N slots registers and promotes as above, reports
\* the held value that is PotentiallyFreed (the first one in the order of
\* the slots when several are) and promotes every such value all the same:
\* after the push it is Rooted by its slot at depth g; a PotentiallyFreed
\* value held by no slot is left as it is.
C18_PushRegistersAndPromotes ==
    [][\A slots \in FrameSlotLists :
          EvalCall_JL_GC_PUSH(slots)
          => /\ PushRegistersAndPromotes(slots)
             /\ reports' = FirstRootFreed(slots)
             /\ \A s \in Syms :
                   isPotentiallyFreed(GCValueMap[s])
                   => IF Holders(slots, s) = {} THEN GCValueMap'[s] = GCValueMap[s]
                      ELSE \E i \in Holders(slots, s) :
                              GCValueMap'[s] = getRooted(slots[i].region, GCDepth)]_vars

\* C18 happens: a push of the two slots x and y at depth 0, x holding the
\* PotentiallyFreed value b and y the unrooted value c, has registered both
\* slots, reported b, rooted both values and raised the depth to 1.
C18_Witness ==
    /\ last.op = "JL_GC_PUSH"
    /\ GCDepth = 1
    /\ GCRootMap["x"] = getRoot(0)
    /\ GCRootMap["y"] = getRoot(0)
    /\ reports = {RootFreed("b")}
    /\ GCValueMap["b"] = getRooted("x", 0)
    /\ GCValueMap["c"] = getRooted("y", 0)
    /\ ~halted


\* The regions a pop at depth g removes from the root map: those registered
\* with RootedAtDepth = g - 1.
RemovedByPop == {R \in Regions : hasRoot(GCRootMap[R])
                                 /\ GCRootMap[R].RootedAtDepth = GCDepth - 1}

\* C19: pop.  A pop with GCDepth = g > 0 sets GCDepth to g - 1, removes from
\* the root map exactly the entries with RootedAtDepth = g - 1, demotes to
\* Allocated exactly the values that are Rooted by one of the removed
\* regions, and leaves every other root map entry and every other value
\* state (values rooted by a shallower root or with a null root included)
\* and both switches unchanged.
C19_PopRemovesItsFrame ==
    [][(EvalCall_JL_GC_POP /\ GCDepth > 0)
       => /\ GCDepth' = GCDepth - 1
          /\ \A R \in Regions :
                GCRootMap'[R] = IF R \in RemovedByPop THEN NoRS ELSE GCRootMap[R]
          /\ \A s \in Syms :
                GCValueMap'[s] = IF /\ isRooted(GCValueMap[s])
                                    /\ GCValueMap[s].Root \in RemovedByPop
                                 THEN getAllocated ELSE GCValueMap[s]
          /\ reports' = {}
          /\ UNCHANGED <<GCDisabledAt, SafepointDisabledAt>>]_vars

\* C19 happens: a pop from depth 2 has removed the slot y pushed at depth 1
\* and left the slot x pushed at depth 0, the value b it roots and the
\* null-rooted value a as they were.
C19_Witness ==
    /\ last.op = "JL_GC_POP"
    /\ GCDepth = 1
    /\ reports = {}
    /\ GCRootMap["x"] = getRoot(0)
    /\ ~hasRoot(GCRootMap["y"])
    /\ GCValueMap["b"] = getRooted("x", 0)
    /\ GCValueMap["a"] = getRooted(NoRegion, -1)
    /\ isJustAllocated(GCValueMap["c"])

\* C20: root arrays.  _JL_GC_PUSHARGS and jl_gc_push_arraylist both register
\* their region as RootArray stamped with the GCDepth in force before the
\* increment, so that the matching pop removes the entry: after a pop no
\* RootArray entry is left that was stamped at or above the depth popped to.
C20_RootArrayPoppedByMatchingPop ==
    [][/\ EvalCall_JL_GC_PUSHARGS("arr")
          => GCRootMap'["arr"] = getRootArray(GCDepth)
       /\ EvalCall_jl_gc_push_arraylist(TRUE, "items")
          => GCRootMap'["items"] = getRootArray(GCDepth)
       /\ EvalCall_JL_GC_POP
          => \A R \in Regions :
                isRootArray(GCRootMap'[R]) => GCRootMap'[R].RootedAtDepth < GCDepth']_vars


-----------------------------------------------------------------------------
(* Further properties of deriving expressions (specification SpecDeriv). *)

\* What the root-slot special case is to leave in the value map for the
\* derived symbol: Rooted at the depth the root-map entry RS was registered
\* at, unless the symbol was already Rooted at a strictly shallower depth, in
\* which case its state is kept.
RootedAtSlotDepth(sym, RS) ==
    LET old == GCValueMap[sym] IN
    IF isRooted(old) /\ old.RootDepth < RS.RootedAtDepth
    THEN GCValueMap'[sym] = old
    ELSE /\ isRooted(GCValueMap'[sym])
         /\ GCValueMap'[sym].RootDepth = RS.RootedAtDepth

\* C21: the root-slot special case of derivation.  A subscript whose base is
\* an element of a region registered in the root map, and a member access
\* whose own region is registered in the root map, leave the derived value
\* Rooted at the depth of that root-map entry (not at the current GCDepth),
\* unless it was already Rooted at a strictly shallower depth, in which case
\* it is unchanged.
C21_RootSlotDerivation ==
    [][/\ \A e \in SubscriptExprs :
            (/\ PostStmt_ArraySubscript(e.lhs, TRUE, e.d)
             /\ hasRoot(GCRootMap[e.lhs.base])
             /\ getSymbolForResult(e.d, resultIsLoc(e.d), TRUE) # NoSym)
            => RootedAtSlotDepth(getSymbolForResult(e.d, resultIsLoc(e.d), TRUE), GCRootMap[e.lhs.base])
       /\ \A m \in MemberExprs :
            (/\ PostStmt_Member(m.region, TRUE, m.d)
             /\ hasRoot(GCRootMap[m.region.name])
             /\ getSymbolForResult(m.d, resultIsLoc(m.d), TRUE) # NoSym)
            => RootedAtSlotDepth(getSymbolForResult(m.d, resultIsLoc(m.d), TRUE), GCRootMap[m.region.name])
      ]_vars


-----------------------------------------------------------------------------
(* Properties of the GC and safepoint switches (specification SpecFlags). *)

\* The stack heights of the model.
Heights == 1..MaxHeight

\* C22 (as stated): jl_gc_enable(0) executed at stack height h sets
\* GCDisabledAt to h, jl_gc_enable(1) sets it to NONE, and the value bound to
\* the call is the GC-enabled state that held before the call.
C22_AsStated ==
    [][\A arg \in {"0", "1"} :
         EvalCall_jl_gc_enable(arg) =>
           /\ arg = "0" => GCDisabledAt' = getStackFrameHeight(Stack)
           /\ arg = "1" => GCDisabledAt' = UNSIGNED_M1
           /\ last'.result = gcEnabledHere(GCDisabledAt)
      ]_vars

\* C22 (amended): jl_gc_enable(0) leaves GC disabled with GCDisabledAt at a
\* value that is no stack height, and a function exit keeps such a value, so
\* GC stays disabled after the function exits; jl_gc_enable(1) sets
\* GCDisabledAt to NONE; the value bound to the call is the GC-enabled state
\* that held before the call.
C22_ToggleGC ==
    [][/\ \A arg \in {"0", "1"} :
            EvalCall_jl_gc_enable(arg) =>
              /\ arg = "0" => /\ ~gcEnabledHere(GCDisabledAt')
                              /\ GCDisabledAt' \notin Heights
              /\ arg = "1" => GCDisabledAt' = UNSIGNED_M1
              /\ last'.result = gcEnabledHere(GCDisabledAt)
       /\ (EndFunction(NoRet) /\ GCDisabledAt \notin Heights)
            => GCDisabledAt' = GCDisabledAt
      ]_vars

\* GC was just switched off by jl_gc_enable(0) in an inlined function, while
\* it was enabled.
C22_Witness ==
    /\ last.op = "jl_gc_enable"
    /\ last.tag = "0"
    /\ last.result = TRUE
    /\ Len(Stack) = 2
    /\ ~gcEnabledHere(GCDisabledAt)


\* C23: lock regions.  A recognised lock (or julia_notsafepoint_enter callee)
\* reached with safepoints enabled sets SafepointDisabledAt to the current
\* stack height; a recognised unlock (or julia_notsafepoint_leave callee)
\* sets SafepointDisabledAt to NONE whenever it equals the current stack
\* height and leaves it unchanged when it was set at another height.
C23_LockRegions ==
    [][/\ \A c \in {C_lock, C_nsenter} :
            (EvalCall_lock(c) /\ safepointEnabledHere(SafepointDisabledAt))
            => SafepointDisabledAt' = getStackFrameHeight(Stack)
       /\ \A c \in {C_unlock, C_nsleave} :
            PreCall(CallOf(c, <<>>, NoSym, NoSym))
            => SafepointDisabledAt' =
                 IF SafepointDisabledAt = getStackFrameHeight(Stack)
                 THEN UNSIGNED_M1 ELSE SafepointDisabledAt
      ]_vars


-----------------------------------------------------------------------------
(* Properties of the results of calls (specification SpecResult). *)

\* The callees with a paired rooting argument / rooted argument annotation,
\* first parameter rooting, second rooted.
PairedRooting(call) ==
    /\ Len(call.callee.params) = 2
    /\ call.callee.params[1].rootingArg
    /\ call.callee.params[2].rootedArg

\* The rooted argument of such a call ends the call Rooted when it was
\* Allocated and the rooting argument Rooted.
RootedArgumentSurvives(call) ==
    (/\ PairedRooting(call)
     /\ isSafepoint(call.callee)
     /\ isRooted(GCValueMap[call.args[1].sym])
     /\ isJustAllocated(GCValueMap[call.args[2].sym]))
    => isRooted(GCValueMap'[call.args[2].sym])

\* C24 (as stated): in the post-call of a safepoint with a paired rooting /
\* rooted argument whose rooting argument is Rooted, an Allocated rooted
\* argument ends the call Rooted; and the result of a call is never
\* PotentiallyFreed after the call.
C24_AsStated ==
    [][\A call \in ResultCalls :
         (last' = Op("PostCall", call.callee.name) /\ PostCall(call)) =>
           /\ RootedArgumentSurvives(call)
           /\ ~isPotentiallyFreed(GCValueMap'[ResultSym(call)])
      ]_vars

\* C24 (amended): as stated for the rooted argument; and the result of a call
\* is not made PotentiallyFreed by the call: it is PotentiallyFreed after the
\* call only if its identity already was before the call.
C24_PostCallOrder ==
    [][\A call \in ResultCalls :
         (last' = Op("PostCall", call.callee.name) /\ PostCall(call)) =>
           /\ RootedArgumentSurvives(call)
           /\ isPotentiallyFreed(GCValueMap'[ResultSym(call)])
                => isPotentiallyFreed(GCValueMap[ResultSym(call)])
      ]_vars

\* The post-call of the safepoint jl_set_field(a, b) with GC enabled has left
\* its rooted argument b Rooted as its rooting argument a is, and its
\* fresh result c Allocated.
C24_Witness ==
    /\ last = Op("PostCall", "jl_set_field")
    /\ gcEnabledHere(GCDisabledAt)
    /\ GCValueMap["b"] = getRooted(NoRegion, -1)
    /\ isJustAllocated(GCValueMap["c"])


\* The result classification of the claim, with Default the state of the last
\* rule: globally rooted result type, else callee annotated globally rooted,
\* else the boxing rule, else the rooted state of the argument of a
\* propagates-root parameter, else Default.
ClassifiedResult(call, Default) ==
    LET callee == call.callee
        i == firstPropagatesRoot(callee.params, 1)
        Propagated == IF hasFD(callee) /\ i # 0
                      THEN getValStateForRegion(GCValueMap, regionBase(call.args[i]))
                      ELSE NoVS
    IN  IF callee.resultGlobRoot THEN getRooted(NoRegion, -1)
        ELSE IF hasFD(callee) /\ callee.globallyRooted THEN getRooted(NoRegion, -1)
        ELSE IF hasFD(callee) /\ starts_with_jl_box(callee.name)
        THEN IF call.args[1].kind = "int"
                  /\ boxGloballyRooted(callee.name, call.args[1].int)
             THEN getRooted(NoRegion, -1) ELSE Default
        ELSE IF hasState(Propagated) THEN Propagated
        ELSE Default

\* The result identity is also the call's rooted argument, which argument
\* rooting rewrites before the result is classified.
ResultIsRootedArgument(call) ==
    PairedRooting(call) /\ call.args[2].sym = ResultSym(call)

\* C25 (as stated): precedence of the result classification for a call with a
\* tracked result type; when no rule applies the result is Allocated,
\* whatever state the result identity had before the call.
C25_AsStated ==
    [][\A call \in ResultCalls :
         (last' = Op("PostCall", call.callee.name) /\ PostCall(call)) =>
           GCValueMap'[ResultSym(call)] = ClassifiedResult(call, getAllocated)
      ]_vars

\* C25 (amended): the same precedence; when no rule applies the result keeps
\* the state its identity had before the call, and is Allocated only when it
\* had none.  (Stated for a result identity that is not also the call's
\* rooted argument.)
C25_ResultClassification ==
    [][\A call \in ResultCalls :
         (/\ last' = Op("PostCall", call.callee.name)
          /\ PostCall(call)
          /\ ~ResultIsRootedArgument(call)) =>
           GCValueMap'[ResultSym(call)] =
             ClassifiedResult(call, IF hasState(GCValueMap[ResultSym(call)])
                                    THEN GCValueMap[ResultSym(call)]
                                    ELSE getAllocated)
      ]_vars

\* The post-call of jl_svecref, whose parameter propagates its root, with the
\* result c rooted as the argument b was: by the slot x at depth 0.
C25_Witness ==
    /\ last = Op("PostCall", "jl_svecref")
    /\ GCValueMap["c"] = getRooted("x", 0)
    /\ GCValueMap["b"] = getRooted("x", 0)


-----------------------------------------------------------------------------
(* Properties of the call classifier (specification SpecLocks). *)

\* C26: the deny-list of the call classifier.  A call to any function
\* recognised by name as a lock acquisition or release is classified as not a
\* safepoint, so its pre-call never reports a safepoint violation, also when
\* safepoints are already disabled; uv_run is classified as a safepoint
\* unless it is annotated not-safepoint.
C26_LockDenyList ==
    [][/\ \A c \in LockCallees \cup UnlockCallees :
            PreCall(CallOf(c, <<>>, NoSym, NoSym))
            => /\ ~isSafepoint(c)
               /\ SafepointViolation \notin reports'
       /\ \A c \in {C_uv_run, C_uv_run_ns} :
            PreCall(CallOf(c, <<>>, NoSym, NoSym))
            => (isSafepoint(c) <=> ~c.annNotSafepoint)
      ]_vars


-----------------------------------------------------------------------------
(* Properties of derivations by the state of the parent (specification     *)
(* SpecParents).                                                           *)

\* The symbol a derivation of ParentDerivs gives a state to: the one its
\* result location holds, or the one conjured for it.
DerivedSym(d) == IF d.loaded # NoSym THEN d.loaded ELSE d.conj

\* C27: derivation from a global.  When the parent of a tracked derived value
\* walks back to a global variable of tracked type, the derived value gets
\* the state the global's classification computes: Rooted at depth -1 if the
\* global is globally rooted (by type or annotation), Allocated otherwise.
C27_DerivedFromGlobal ==
    [][\A d \in GlobalDerivs :
         (PostStmt_Deref(d) /\ d.resultTracked /\ d.global.tracked)
         => IF d.global.rooted
            THEN /\ isRooted(GCValueMap'[DerivedSym(d)])
                 /\ GCValueMap'[DerivedSym(d)].RootDepth = -1
            ELSE GCValueMap'[DerivedSym(d)] = getAllocated
      ]_vars


\* The parent of the derivation has no entry in the value map, and the
\* derived value is not already Rooted.
NoParentState(d) ==
    /\ d.OldSym = NoSym \/ GCValueMap[d.OldSym].S = "None"
    /\ GCValueMap[DerivedSym(d)].S # "Rooted"

\* C28 (as stated): derivation with no parent state, where neither the global
\* nor the parameter rule applies.  The derived value becomes Untracked if
\* its own type is not a tracked type, and is left without a state if its
\* type is a tracked type.
C28_AsStated ==
    [][\A d \in PlainDerivs \cup FreshDerivs :
         (PostStmt_Deref(d) /\ NoParentState(d))
         => IF ~d.resultTracked
            THEN GCValueMap'[DerivedSym(d)] = getUntracked
            ELSE GCValueMap'[DerivedSym(d)] = GCValueMap[DerivedSym(d)]
      ]_vars

\* C28 (amended): derivation with no parent state, where neither the global
\* nor the parameter rule applies.  The derived value becomes Untracked if
\* its own type is a tracked type, and the value map is left as it was if
\* its type is not a tracked type.
C28_NoParentState ==
    [][\A d \in PlainDerivs \cup FreshDerivs :
         (PostStmt_Deref(d) /\ NoParentState(d))
         => IF d.resultTracked
            THEN GCValueMap'[DerivedSym(d)] = getUntracked
            ELSE GCValueMap' = GCValueMap
      ]_vars

\* A derivation whose parent denotes no symbol has just left the derived
\* value c Untracked.
C28_Witness ==
    /\ last = Op("Deref", NoSym)
    /\ GCValueMap["c"] = getUntracked
    /\ reports = {}


\* The parent is tracked and has a state, the derived expression is not of a
\* tracked type (and is not the module / arraylist case).
ToUntrackedType(d) ==
    /\ ~d.resultTracked
    /\ ~d.carveOut
    /\ d.parentTracked
    /\ d.OldSym # NoSym
    /\ GCValueMap[d.OldSym].S # "None"

\* C29 (as stated): derivation to a non-tracked type.  When the parent is
\* tracked and has a state but the derived expression's type is not a
\* tracked type, the derived value's state after the derivation is
\* Untracked.
C29_AsStated ==
    [][\A d \in ParentDerivs :
         (PostStmt_Deref(d) /\ ToUntrackedType(d))
         => GCValueMap'[DerivedSym(d)] = getUntracked
      ]_vars

\* C29 (amended): derivation to a non-tracked type.  When the parent is
\* tracked and has a state but the derived expression's type is not a
\* tracked type, the derivation gives the derived value no state: the value
\* map and the root map are left as they were.
C29_ToUntrackedType ==
    [][\A d \in ParentDerivs :
         (PostStmt_Deref(d) /\ ToUntrackedType(d))
         => /\ GCValueMap' = GCValueMap
            /\ GCRootMap' = GCRootMap
      ]_vars

\* A derivation of untracked type from the allocated parent b has just left
\* the derived value c without a state.
C29_Witness ==
    /\ last = Op("Deref", "b")
    /\ GCValueMap["b"] = getAllocated
    /\ GCValueMap["c"] = NoVS
    /\ reports = {}


\* The report of a derivation from a value that may have been freed.
DerivedFromFreed(sym) ==
    Report("Creating derivative of value that may have been GCed", sym)

\* The parent of the derivation is PotentiallyFreed and the derived value is
\* not already Rooted.
FreedParent(d) ==
    /\ d.OldSym # NoSym
    /\ GCValueMap[d.OldSym].S = "PotentiallyFreed"
    /\ GCValueMap[DerivedSym(d)].S # "Rooted"

\* C30 (as stated): derivation from a freed parent, where neither the global
\* nor the parameter rule applies.  The derivation-from-freed-value error is
\* reported and the derived value's state afterwards is Untracked.
C30_AsStated ==
    [][\A d \in PlainDerivs \cup FreshDerivs :
         (PostStmt_Deref(d) /\ FreedParent(d))
         => /\ DerivedFromFreed(d.OldSym) \in reports'
            /\ GCValueMap'[DerivedSym(d)] = getUntracked
      ]_vars

\* C30 (amended): derivation from a freed parent, where neither the global
\* nor the parameter rule applies.  The derivation-from-freed-value error is
\* reported, the path ends, and the derivation gives the derived value no
\* state: the value map is left as it was, so the derived value is not made
\* Allocated, Rooted, PotentiallyFreed or Untracked by it.
C30_FreedParent ==
    [][\A d \in PlainDerivs \cup FreshDerivs :
         (PostStmt_Deref(d) /\ FreedParent(d))
         => /\ DerivedFromFreed(d.OldSym) \in reports'
            /\ halted'
            /\ GCValueMap' = GCValueMap
      ]_vars

\* A derivation from the possibly freed parent b has just been reported, and
\* the derived value c has no state.
C30_Witness ==
    /\ last = Op("Deref", "b")
    /\ GCValueMap["b"] = getFreed
    /\ GCValueMap["c"] = NoVS
    /\ DerivedFromFreed("b") \in reports
    /\ halted


\* C31: a derivation never downgrades.  When the identity of the derived
\* value is already Rooted before a deriving expression is evaluated, it is
\* Rooted afterwards, at a depth no deeper than before, whichever rule the
\* derivation takes: inheritance from the parent, the parameter rule or the
\* global rule.
C31_NeverDowngrades ==
    [][\A d \in ParentDerivs :
         (/\ last' = Op("Deref", d.OldSym)
          /\ PostStmt_Deref(d)
          /\ DerivedSym(d) # NoSym
          /\ isRooted(GCValueMap[DerivedSym(d)]))
         => /\ isRooted(GCValueMap'[DerivedSym(d)])
            /\ GCValueMap'[DerivedSym(d)].RootDepth
                 <= GCValueMap[DerivedSym(d)].RootDepth
      ]_vars


-----------------------------------------------------------------------------
(* Properties of stores into and loads from root slots (specification      *)
(* SpecSlots).                                                             *)

\* The destinations that are a registered root slot: the slot's own region,
\* or an element of a registered root array.
SlotDests == {R_x, R_y, R_arr0}

\* The region of the root slot a destination belongs to.
SlotOf(L) == IF L.isElement THEN L.base ELSE L.name

\* The step is the store of s to the destination L.
BindOf(L, s) == last' = Op("Bind", L.base) /\ Bind(L, s, NoGlobal)

\* C32: a store into a registered root slot of depth s.  If the stored value
\* is PotentiallyFreed an error is reported; and whenever the stored value
\* has a state, afterwards it is Rooted at a depth <= s: it becomes
\* Rooted(slot, s) unless it was already Rooted at a depth <= s, and then
\* its state is unchanged.
C32_BindIntoRootSlot ==
    [][\A L \in SlotDests : \A v \in Syms :
         (/\ BindOf(L, v)
          /\ hasRoot(GCRootMap[SlotOf(L)])
          /\ hasState(GCValueMap[v]))
         => LET slotDepth == GCRootMap[SlotOf(L)].RootedAtDepth
                before == GCValueMap[v]
                after == GCValueMap'[v]
            IN  /\ isPotentiallyFreed(before)
                     => Report("Trying to root value which may have been GCed", v)
                            \in reports'
                /\ ~halted'
                /\ isRooted(after) /\ after.RootDepth <= slotDepth
                /\ after = IF isRooted(before) /\ before.RootDepth <= slotDepth
                           THEN before
                           ELSE getRooted(SlotOf(L), slotDepth)
      ]_vars

\* C32 happens: the value c, which may have been freed, was stored into the
\* slot x registered at depth 0; the store was reported and c is Rooted by x
\* at depth 0.
C32_Witness ==
    /\ last = Op("Bind", "x")
    /\ reports = {Report("Trying to root value which may have been GCed", "c")}
    /\ ~halted
    /\ GCRootMap["x"] = getRoot(0)
    /\ GCValueMap["c"] = getRooted("x", 0)


-----------------------------------------------------------------------------
(* Properties of the entry of inlined callees (specification SpecInline). *)

\* The step is the entry of the inlined callee of the call ic.
InlinedEntry(ic) ==
    /\ last' = Op("BeginFunction", ic.fd.name)
    /\ Stack # <<>>
    /\ BeginFunction(ic.fd, ic.args)

\* The symbol whose state the caller knows the argument by: the argument's
\* own symbol, or the nearest ancestor in its derivation chain with a state.
CallerSideSym(sym) == walkToRootNoState(GCValueMap, sym)

\* C33: inlined-call parameter propagation.  On entry to an inlined callee,
\* every parameter of tracked type at position i gets the caller-side value
\* state of the call's argument at the same position i (Rooted(null, -1) if
\* the parameter's type is globally rooted), also when parameters of
\* untracked type come before it.
C33_ArgumentPropagation ==
    [][\A ic \in InlinedCalls :
         InlinedEntry(ic) =>
           \A i \in 1..Len(ic.fd.params) :
              (/\ ic.fd.params[i].tracked
               /\ ic.args[i] # NoSym
               /\ CallerSideSym(ic.args[i]) # NoSym)
              => GCValueMap'[ic.args[i]] =
                   IF ic.fd.params[i].globRoot THEN getRooted(NoRegion, -1)
                   ELSE GCValueMap[CallerSideSym(ic.args[i])]
      ]_vars


\* The argument looked up for the parameter at position i is the argument at
\* position i: no parameter of untracked type comes before it.
OwnArgument(FD, i) == \A j \in 1..(i - 1) : FD.params[j].tracked

\* C34: missed allocation of a parameter.  On entry to an inlined callee,
\* when the argument of a parameter of tracked type denotes a symbol of the
\* caller for which neither it nor any ancestor in its derivation chain has
\* a value state, "Missed allocation of parameter" is reported.  (Stated for
\* the parameters whose own argument is looked up.)
C34_MissedAllocation ==
    [][\A ic \in InlinedCalls :
         InlinedEntry(ic) =>
           \A i \in 1..Len(ic.fd.params) :
              (/\ ic.fd.params[i].tracked
               /\ OwnArgument(ic.fd, i)
               /\ ic.args[i] # NoSym
               /\ CallerSideSym(ic.args[i]) = NoSym)
              => Report("Missed allocation of parameter", NoSym) \in reports'
      ]_vars


-----------------------------------------------------------------------------
(* Further properties of the GC and safepoint switches (specification      *)
(* SpecFlags).                                                             *)

\* C35: the disabling height is recorded once.  The entry of an inlined
\* function, annotated or not, while safepoints (GC) are disabled at an outer
\* height h leaves SafepointDisabledAt (GCDisabledAt) equal to h; the exit
\* of a function at another height than h leaves it equal to h too, and the
\* exit of the function at height h resets it to NONE.
C35_RecordedOnce ==
    [][/\ (last'.op = "BeginFunction" /\ Stack # <<>>)
            => /\ SafepointDisabledAt \in Heights
                    => SafepointDisabledAt' = SafepointDisabledAt
               /\ GCDisabledAt \in Heights => GCDisabledAt' = GCDisabledAt
       /\ last'.op = "EndFunction"
            => /\ SafepointDisabledAt \in Heights
                    => SafepointDisabledAt' =
                         IF Len(Stack) = SafepointDisabledAt
                         THEN UNSIGNED_M1 ELSE SafepointDisabledAt
               /\ GCDisabledAt \in Heights
                    => GCDisabledAt' =
                         IF Len(Stack) = GCDisabledAt
                         THEN UNSIGNED_M1 ELSE GCDisabledAt
      ]_vars

\* C35 happens: the function pass, not a safepoint by its file, was entered
\* at the top frame, which disabled safepoints at height 1, and called the
\* not-safepoint function ns; ns has been entered and has exited, and
\* safepoints are still disabled at height 1.
C35_Witness ==
    /\ last = Op("EndFunction", "ns")
    /\ Len(Stack) = 1
    /\ Stack[1].fd = F_llvm
    /\ SafepointDisabledAt = 1


\* C39: lock regions are not counted.  A lock or julia_notsafepoint_enter
\* call made while safepoints are already disabled leaves SafepointDisabledAt
\* as it is; and one unlock or julia_notsafepoint_leave call made at the
\* recorded height, with GC enabled, in a function that is not itself
\* not-safepoint, re-enables safepoints, however many locks came before.
C39_LocksNotCounted ==
    [][/\ (last'.op = "lock" /\ ~safepointEnabledHere(SafepointDisabledAt))
            => SafepointDisabledAt' = SafepointDisabledAt
       /\ (/\ last'.op = "PreCall"
           /\ last'.tag \in {C_unlock.name, C_nsleave.name}
           /\ SafepointDisabledAt = getStackFrameHeight(Stack)
           /\ gcEnabledHere(GCDisabledAt)
           /\ ~isFDAnnotatedNotSafepoint(CurFD))
            => safepointEnabledHere(SafepointDisabledAt')
      ]_vars

\* C39 happens: a lock was taken in an inlined callee at height 2 while
\* safepoints were disabled at height 1 by a lock of the caller, and left
\* the recorded height 1.
C39_Witness ==
    /\ last = Op("lock", C_lock.name)
    /\ Len(Stack) = 2
    /\ Stack[1].fd = F_plain
    /\ SafepointDisabledAt = 1

-----------------------------------------------------------------------------
(* Invariants of the root map and of global rooting (specification         *)
(* SpecFrames).                                                            *)

\* C36: the root-map depth invariant.  In every reachable state every entry
\* of the root map was registered at depth -1 or at a depth below GCDepth,
\* whatever pushes, root-array pushes, pops and function entries led there.
C36_RootMapDepth ==
    \A R \in Regions :
        hasRoot(GCRootMap[R])
            => (GCRootMap[R].RootedAtDepth = -1
                \/ GCRootMap[R].RootedAtDepth < GCDepth)


-----------------------------------------------------------------------------
(* Properties of permanent roots (specification SpecPermanent). *)

\* C37: permanence of global rooting.  A value in state Rooted(null, -1),
\* whether a promise, a globally rooted callee or the trust in the top
\* frame's arguments made it so, is changed by no pop and by no safepoint;
\* and a root-map entry registered at depth -1, for a globally rooted global
\* or a julia_require_rooted_slot parameter, is removed by no pop.
C37_GlobalRootingPermanent ==
    [][/\ (last'.op = "JL_GC_POP" \/ last'.op = "PostCall")
            => \A s \in Syms :
                  GCValueMap[s] = getRooted(NoRegion, -1)
                      => GCValueMap'[s] = getRooted(NoRegion, -1)
       /\ last'.op = "JL_GC_POP"
            => \A R \in Regions :
                  (hasRoot(GCRootMap[R]) /\ GCRootMap[R].RootedAtDepth = -1)
                      => GCRootMap'[R] = GCRootMap[R]
      ]_vars

\* C37 happens: in slot(p, a), whose parameter p requires a rooted slot, the
\* value b was promised rooted and the global gr was read; a frame that
\* rooted c was pushed and has been popped, which demoted c and left b, the
\* entry of p and the entry of gr as they were.
C37_Witness ==
    /\ last = Op("JL_GC_POP", "")
    /\ reports = {}
    /\ GCDepth = 0
    /\ Stack[1].fd = F_slot
    /\ GCValueMap["a"] = getRooted(NoRegion, -1)
    /\ GCValueMap["b"] = getRooted(NoRegion, -1)
    /\ GCValueMap["c"] = getAllocated
    /\ GCRootMap["p"] = getRoot(-1)
    /\ GCRootMap["gr"] = getRoot(-1)


-----------------------------------------------------------------------------
(* Further properties of root slots (specification SpecSlots). *)

\* The pushes with a slot argument that is not a memory region.
FailingPushes == {slots \in SlotPushes : \E i \in 1..Len(slots) : slots[i] = NotASlot}

\* GCDepth, the root map and the value map are as they were.
RootStateUnchanged ==
    /\ GCDepth' = GCDepth
    /\ GCRootMap' = GCRootMap
    /\ GCValueMap' = GCValueMap

\* The report of a failing push: that of the first PotentiallyFreed value
\* held by a slot before the failing argument, and without one that of the
\* failing argument.
FailingPushReport(slots) ==
    IF FreedSlots(slots) # {} THEN FirstRootFreed(slots)
    ELSE {Report("JL_GC_PUSH with something other than a local variable", NoSym)}

\* C38: a push is atomic on error.  When a slot argument of JL_GC_PUSH, or
\* the argument of _JL_GC_PUSHARGS, is not a memory region, an error is
\* reported, the path ends, and GCDepth, the root map and the value map are
\* unchanged, also when slot arguments before the failing one were valid.
C38_PushAtomicOnError ==
    [][/\ \A slots \in FailingPushes :
            (last' = Op("JL_GC_PUSH", slots[1].region) /\ EvalCall_JL_GC_PUSH(slots))
            => /\ reports' = FailingPushReport(slots)
               /\ halted'
               /\ RootStateUnchanged
       /\ (last' = Op("_JL_GC_PUSHARGS", NoRegion) /\ EvalCall_JL_GC_PUSHARGS(NoRegion))
            => /\ Report("JL_GC_PUSH with something other than an args array", NoSym)
                    \in reports'
               /\ halted'
               /\ RootStateUnchanged
      ]_vars

\* C38 happens: JL_GC_PUSH2(&x, e), with x holding the allocated value b and
\* e no memory region, was reported; x is not registered, b is still
\* Allocated and GCDepth is 0.
C38_Witness ==
    /\ last = Op("JL_GC_PUSH", "x")
    /\ halted
    /\ reports = {Report("JL_GC_PUSH with something other than a local variable", NoSym)}
    /\ GCDepth = 0
    /\ ~hasRoot(GCRootMap["x"])
    /\ isJustAllocated(GCValueMap["b"])


-----------------------------------------------------------------------------
(* Properties of the shallowest root of a value (specification SpecSlots). *)

\* The pushes of one slot that holds a value.
HoldingPushes == {slots \in SlotPushes : Len(slots) = 1 /\ slots[1] # NotASlot /\ slots[1].sym # NoSym}

\* The step is the load of value v through region L.
LoadOf(L, v) == last' = Op("Location", L.name) /\ Location(L, TRUE, v)

\* The state of a value that goes through a root slot registered at depth s:
\* a value Rooted at a depth d < s keeps its state, a value Rooted at a depth
\* d > s is re-rooted by the slot at depth s.
ShallowestRoot(before, after, slot, s) ==
    /\ before.RootDepth < s => after = before
    /\ before.RootDepth > s => after = getRooted(slot, s)

\* A push, a store and a load leave the shallowest root to a rooted value.
ShallowestRootWins ==
    /\ \A slots \in HoldingPushes :
          LET v == slots[1].sym IN
          (/\ last' = Op("JL_GC_PUSH", slots[1].region)
           /\ EvalCall_JL_GC_PUSH(slots)
           /\ isRooted(GCValueMap[v])
           /\ GCValueMap[v].RootDepth < GCDepth)
          => GCValueMap'[v] = GCValueMap[v]
    /\ \A L \in SlotDests : \A v \in Syms :
          (/\ BindOf(L, v)
           /\ hasRoot(GCRootMap[SlotOf(L)])
           /\ isRooted(GCValueMap[v]))
          => ShallowestRoot(GCValueMap[v], GCValueMap'[v], SlotOf(L),
                            GCRootMap[SlotOf(L)].RootedAtDepth)
    /\ \A L \in {R_x, R_y} : \A v \in {"b", "c"} :
          (/\ LoadOf(L, v)
           /\ hasRoot(GCRootMap[L.name])
           /\ isRooted(GCValueMap[v]))
          => ShallowestRoot(GCValueMap[v], GCValueMap'[v], L.name,
                            GCRootMap[L.name].RootedAtDepth)

\* C40 as stated: the shallowest root wins.  A value Rooted at depth d that
\* is pushed in, stored into or loaded from a root slot of a deeper frame
\* keeps its state, and a value Rooted at depth d is still Rooted after the
\* pop of a frame deeper than d; a store or a load through a root slot of
\* depth s < d re-roots it at depth s.
C40_AsStated ==
    [][/\ ShallowestRootWins
       /\ (EvalCall_JL_GC_POP /\ GCDepth > 0)
          => \A v \in Syms :
                (isRooted(GCValueMap[v]) /\ GCValueMap[v].RootDepth < GCDepth - 1)
                => GCValueMap'[v] = GCValueMap[v]
      ]_vars

\* The slot that roots the value with state vs is registered in the frame
\* that a pop is about to remove.
RootInPoppedFrame(vs) ==
    /\ vs.Root \in Regions
    /\ hasRoot(GCRootMap[vs.Root])
    /\ GCRootMap[vs.Root].RootedAtDepth = GCDepth - 1

\* C40, amended: the shallowest root wins.  A value Rooted at depth d that
\* is pushed in, stored into or loaded from a root slot of a deeper frame
\* keeps its state, and a value Rooted at depth d is still Rooted after the
\* pop of a frame deeper than d unless the slot that roots it was registered
\* again in the popped frame; a store or a load through a root slot of depth
\* s < d re-roots it at depth s.
C40_ShallowestRootWins ==
    [][/\ ShallowestRootWins
       /\ (EvalCall_JL_GC_POP /\ GCDepth > 0)
          => \A v \in Syms :
                (/\ isRooted(GCValueMap[v])
                 /\ GCValueMap[v].RootDepth < GCDepth - 1
                 /\ ~RootInPoppedFrame(GCValueMap[v]))
                => GCValueMap'[v] = GCValueMap[v]
      ]_vars

\* C40 happens: the value b, Rooted by the slot x of depth 0, was loaded
\* from the slot y of depth 1 and is still Rooted by x at depth 0; c, which
\* was not loaded, is not rooted.
C40_Witness ==
    /\ last = Op("Location", "y")
    /\ GCDepth = 2
    /\ GCRootMap["x"] = getRoot(0)
    /\ GCRootMap["y"] = getRoot(1)
    /\ GCValueMap["b"] = getRooted("x", 0)
    /\ ~isRooted(GCValueMap["c"])

=============================================================================
